---- MODULE Spec2Model ----
(***************************************************************************)
(* Perception front end of MadData-26: the detector post-processing        *)
(* (YOLOService.postprocess with _nms_numpy, Watchdog._postprocess_raw and *)
(* _postprocess_qnn) and the Whisper front end (_compute_log_mel_          *)
(* spectrogram's framing, EOT truncation and _greedy_decode_tokens).       *)
(*                                                                         *)
(* Numbers.  The code computes on floats; the model computes the same      *)
(* expressions exactly, on integers:                                       *)
(*   - box centres and sizes are whole model-input pixels; a corner        *)
(*     cx -/+ w/2 is kept in half pixels (2*cx -/+ w);                     *)
(*   - scores, confidences and confidence thresholds are in units of       *)
(*     1/ScoreUnit (1e-5); returned bbox coordinates likewise;             *)
(*   - IoU thresholds are in units of 1/IouUnit (1e-2);                    *)
(*   - round(x, k) is Python's round-half-to-even.                         *)
(***************************************************************************)
EXTENDS Integers, Sequences, FiniteSets, TLC

VARIABLES
    argsortMemo,   \* what ndarray.argsort()[::-1] returned for each score array sorted so far
    yoloOutputs,   \* outputs[0] of session.run, as the sequence of its grid cells
    yoloShape,     \* orig_shape = <<height, width>> of the frame
    yoloPhase,     \* "idle" before session.run, "ran" after
    yoloCalls,     \* completed postprocess calls on yoloOutputs
    wdLoaded,      \* Watchdog._loaded
    wdQnnFormat,   \* Watchdog._qnn_format
    wdConfidence,  \* Watchdog.confidence
    wdRaw,         \* the raw tensor of the last Watchdog.detect (standard format)
    wdQnn,         \* the boxes/scores/class_idx rows of the last detect (QNN format)
    wdDetections,  \* what the last Watchdog.detect returned
    wdConfUsed,    \* the conf_threshold argument of its _postprocess_raw/_qnn call
    wdPhase,       \* "none" before main._get_watchdog built it, then "idle", and after
                   \* a detect the branch it took: "raw" | "qnn" | "unloaded"
    audioLen,      \* len(audio) of the last _compute_log_mel_spectrogram call
    melShape,      \* shape of the array it returned, <<1, n_mels, n_frames>>
    melPhase,      \* "idle" | "done"
    audioKind,     \* what that audio held: silence, or a signal of some energy
    melValues,     \* the set of values in the array it returned, times 4
    tokenIds,      \* token_ids the model produced in the last WhisperService.transcribe
    transcription, \* Transcription.text it returned, as a sequence of code points
    sttPhase,      \* "idle" | "done"
    gdTokens,      \* token_ids argument of the last _greedy_decode_tokens call
    gdChars,       \* its chars list after the loop, as code points
    gdText,        \* the string it returned
    gdPhase,       \* "idle" | "done"
    pcmLen,        \* len(pcm) of the last AudioDetector._preprocess call
    melFrames,     \* mel_spec.shape[0] in that call
    patches,       \* the batch it returned: a sequence of patches, each a sequence of rows
    patchPhase,    \* "idle" | "done"
    pcmKind,       \* what that pcm held
    patchValues,   \* the set of values in the batch, in 1e-6
    anchorsCache,  \* FaceService._anchors; NoTable stands for None
    faceTensor,    \* outputs of the face detector session in the last detect_faces
    faceResult,    \* how that call ended: [status, detections]
    facePhase,     \* "idle" | "done"
    sessions,      \* the keys of OnnxRuntimeManager._sessions
    entryCall,     \* the last call of an inference entry point and how it ended
    anchorsReturned, \* what the last FaceService._get_anchors call returned
    melFbCache,    \* audiodetector._mel_fb; NoTable stands for None
    melPc,         \* per executor thread: where it is in _get_mel_fb
    melBuilt,      \* per thread: the filterbank its _build_mel_filterbank call returned
    melReturned,   \* per thread: what its last _get_mel_fb call returned
    melBuilds,     \* how many times _build_mel_filterbank has run
    melCalls,      \* how many _get_mel_fb calls have started
    reqPc,         \* per WebSocket client: where its 'detect' message is in handle_detect
    reqPayload,    \* per client: the confidence and the frame of that message
    reqResult,     \* per client: what the executor's detect_from_base64 returned
    reqSent,       \* per client: the last detection_result sent to it
    adLoaded,      \* AudioDetector._loaded
    adConfidence,  \* AudioDetector.confidence
    adProbs,       \* avg_probs of the last AudioDetector.classify call
    adTopN,        \* its top_n argument
    adConfUsed,    \* self.confidence as that call read it
    adResults,     \* the list it returned
    adPhase,       \* "none" before main._get_audio_detector built it, then "idle" | "done"
    mgrInstance,   \* OnnxRuntimeManager._instance: 0 for None, else the object
    mgrSessions,   \* _instance._sessions: per model name its session object, 0 when absent
    mgrInitialized, \* _instance._initialized
    mgrObjects,    \* how many objects (managers, sessions) have been created
    mgrLoads,      \* per model name: InferenceSession constructions since the last shutdown
    mgrCalls,      \* how many calls have been made
    mgrLast        \* the last call and how it ended

yoloVars == <<argsortMemo, yoloOutputs, yoloShape, yoloPhase, yoloCalls>>
wdVars == <<wdLoaded, wdQnnFormat, wdConfidence, wdRaw, wdQnn, wdDetections, wdConfUsed,
           wdPhase>>
whisperVars == <<audioLen, melShape, melPhase, audioKind, melValues, tokenIds, transcription,
                 sttPhase>>
decodeVars == <<gdTokens, gdChars, gdText, gdPhase>>
patchVars == <<pcmLen, melFrames, patches, patchPhase, pcmKind, patchValues>>
faceVars == <<anchorsCache, faceTensor, faceResult, facePhase>>
entryVars == <<sessions, entryCall>>
cacheVars == <<anchorsReturned, melFbCache, melPc, melBuilt, melReturned, melBuilds,
              melCalls>>
serverVars == <<reqPc, reqPayload, reqResult, reqSent>>
classifyVars == <<adLoaded, adConfidence, adProbs, adTopN, adConfUsed, adResults, adPhase>>
managerVars == <<mgrInstance, mgrSessions, mgrInitialized, mgrObjects, mgrLoads, mgrCalls,
                mgrLast>>
moreVars == <<classifyVars, managerVars>>
laterVars == <<decodeVars, patchVars, faceVars, entryVars, cacheVars, serverVars, moreVars>>
vars == <<yoloVars, wdVars, whisperVars, laterVars>>

----------------------------------------------------------------------------
(* Units and program constants *)

ScoreUnit == 100000
IouUnit == 100
UnitGcd == 160
INPUT_SIZE == 640
DefaultConfThreshold == 50000
DefaultIouThresh == 45
WatchdogDefaultConfidence == 45000
WatchdogMaxDetections == 20
WHISPER_SAMPLE_RATE == 16000
WHISPER_N_FFT == 400
WHISPER_HOP_LENGTH == 160
WHISPER_N_MELS == 80
WHISPER_CHUNK_LENGTH_S == 30
WHISPER_MAX_FRAMES == WHISPER_SAMPLE_RATE * WHISPER_CHUNK_LENGTH_S
EOT_TOKEN == 50256
STFT_WINDOW == 400
STFT_HOP == 160
MEL_BANDS == 64
PATCH_FRAMES == 96
PATCH_HOP == 48
FaceInputSize == 128
FaceUnit == 256
FaceIouTenths == 3
AnchorsPerCell == 2
FaceBoxChannels == 4
FaceChannels == 16
MaxDemoDetections == 4
AudioDefaultConfidence == 15000
DefaultTopN == 10
STFT_NFFT == 512
SpecialTokenFloor == 50257
ReplacementChar == 65533
Space == 32

(* Bounds of the model *)
MaxCells == 4
MaxTokens == 3
MaxAudioChunks == 125
MaxPcmChunks == 120
MaxFaces == 2
NumWorkers == 2
NumClients == 2
MaxCacheCalls == 3
MaxCrowd == 22
MaxTopN == 3
MaxManagerCalls == 5

----------------------------------------------------------------------------
(* Arithmetic helpers *)

Min2(a, b) == IF a <= b THEN a ELSE b
Max2(a, b) == IF a >= b THEN a ELSE b

\* np.clip(x, lo, hi)
Clip(x, lo, hi) == Max2(lo, Min2(x, hi))

\* round(n/d) to the nearest integer, ties to the even one (Python's round), d > 0
RoundHalfEven(n, d) ==
    LET q == n \div d
        r == n - q * d
    IN  IF 2 * r < d THEN q
        ELSE IF 2 * r > d THEN q + 1
        ELSE IF q % 2 = 0 THEN q ELSE q + 1

\* round(x, k) of a value given in 1/ScoreUnit, step = ScoreUnit / 10^k
RoundTo(x, step) == RoundHalfEven(x, step) * step

Range(s) == {s[i] : i \in DOMAIN s}

\* all sequences over S of length 0..n
SeqsUpTo(S, n) == UNION {[1..k -> S] : k \in 0..n}

----------------------------------------------------------------------------
(* ndarray.argsort()[::-1]                                                 *)
(*                                                                         *)
(* argsort() sorts ascending with NumPy's default kind, quicksort, which   *)
(* is not stable: the relative order of equal scores is unspecified.  The  *)
(* result is some arrangement of the indices with non-increasing scores.   *)
(* The library is deterministic, so the same array always sorts the same   *)
(* way: argsortMemo records the arrangement returned for each array, and   *)
(* a later call on an equal array returns it again.                        *)

Indices(n) == [i \in 1..n |-> i]

\* all arrangements of the elements of S
RECURSIVE Arrangements(_)
Arrangements(S) ==
    IF S = {} THEN {<<>>}
    ELSE UNION {{<<x>> \o p : p \in Arrangements(S \ {x})} : x \in S}

\* the arrangements of the indices with non-increasing scores: the indices of
\* the highest score in any order, then those of the next score, and so on
ArgsortDesc(scores) ==
    LET RECURSIVE Descending(_)
        Descending(rest) ==
            IF rest = {} THEN {<<>>}
            ELSE LET top == {i \in rest : \A j \in rest : scores[j] <= scores[i]}
                 IN  {a \o b : a \in Arrangements(top), b \in Descending(rest \ top)}
    IN  Descending(1..Len(scores))

ArgsortChoices(memo, scores) ==
    IF \E m \in memo : m.scores = scores
    THEN {m.order : m \in {x \in memo : x.scores = scores}}
    ELSE ArgsortDesc(scores)

----------------------------------------------------------------------------
(* _nms_numpy, yolo_service.py.  Boxes are <<x1, y1, x2, y2>>.             *)

BoxArea(b) == (b[3] - b[1]) * (b[4] - b[2])

BoxIntersection(a, b) ==
    LET w == Max2(0, Min2(a[3], b[3]) - Max2(a[1], b[1]))
        h == Max2(0, Min2(a[4], b[4]) - Max2(a[2], b[2]))
    IN  w * h

BoxUnion(a, b) == BoxArea(a) + BoxArea(b) - BoxIntersection(a, b)

\* variant of IouWithin: the comparison inverted, inds = np.where(iou > iou_threshold)
IouWithinInverted(a, b, iou_threshold) ==
    IF BoxUnion(a, b) > 0
    THEN BoxIntersection(a, b) * IouUnit > iou_threshold * BoxUnion(a, b)
    ELSE 0 > iou_threshold

\* iou = np.where(union > 0, intersection / union, 0.0); iou <= iou_threshold
IouWithin(a, b, iou_threshold) ==
    IF BoxUnion(a, b) > 0
    THEN BoxIntersection(a, b) * IouUnit <= iou_threshold * BoxUnion(a, b)
    ELSE 0 <= iou_threshold

\* the while loop: order[0] is kept, the rest is filtered by inds
RECURSIVE NmsLoop(_, _, _, _)
NmsLoop(boxes, iou_threshold, order, keep) ==
    IF Len(order) = 0 THEN keep
    ELSE LET i == order[1]
             kept == Append(keep, i)
         IN  IF Len(order) = 1 THEN kept
             ELSE NmsLoop(boxes, iou_threshold,
                          SelectSeq(Tail(order),
                                    LAMBDA j : IouWithin(boxes[i], boxes[j], iou_threshold)),
                          kept)

\* order is what scores.argsort()[::-1] returned
NmsNumpy(boxes, order, iou_threshold) ==
    IF Len(boxes) = 0 THEN <<>>
    ELSE NmsLoop(boxes, iou_threshold, order, <<>>)

----------------------------------------------------------------------------
(* YOLOService.postprocess, yolo_service.py.  A grid cell of the           *)
(* transposed tensor is [cx, cy, w, h, scores].                            *)

\* np.argmax: the first index of the maximum, as a 1-based position
ArgMaxPos(s) ==
    CHOOSE i \in DOMAIN s :
        /\ \A j \in DOMAIN s : s[j] <= s[i]
        /\ \A j \in DOMAIN s : j < i => s[j] < s[i]

CellClassId(cell) == ArgMaxPos(cell.scores) - 1
CellConfidence(cell) == cell.scores[ArgMaxPos(cell.scores)]

\* mask = confidences >= conf_thresh
YoloMask(confidence, conf_thresh) == confidence >= conf_thresh

\* x1 = cx - w / 2.0 ..., in half pixels
CornerBox(cell) ==
    <<2 * cell.cx - cell.w, 2 * cell.cy - cell.h,
      2 * cell.cx + cell.w, 2 * cell.cy + cell.h>>

\* the rows that pass the mask, in tensor order
YoloCandidates(outputs, conf_thresh) ==
    SelectSeq(Indices(Len(outputs)),
              LAMBDA i : YoloMask(CellConfidence(outputs[i]), conf_thresh))

\* boxes[:, k] *= scale; np.clip(boxes[:, k] / orig, 0.0, 1.0); round(float(v), 5)
\* for the half-pixel coordinate x and orig = orig_w or orig_h
\* (numerator and denominator of the rounded quotient are both divided by
\* UnitGcd, the common factor of ScoreUnit and 2 * INPUT_SIZE)
YoloNormalise(x, orig) ==
    LET num == x * orig
        den == 2 * INPUT_SIZE * orig
    IN  RoundHalfEven(Clip(num, 0, den) * (ScoreUnit \div UnitGcd), den \div UnitGcd)

YoloDetection(cell, orig_shape) ==
    LET b == CornerBox(cell)
    IN  [class_id |-> CellClassId(cell),
         confidence |-> RoundTo(CellConfidence(cell), 10),
         bbox |-> <<YoloNormalise(b[1], orig_shape[2]), YoloNormalise(b[2], orig_shape[1]),
                    YoloNormalise(b[3], orig_shape[2]), YoloNormalise(b[4], orig_shape[1])>>]

\* cand: the masked rows; order: confidences.argsort()[::-1] inside _nms_numpy.
\* Returns the kept positions within cand and the detections, in keep order.
Postprocess(outputs, orig_shape, cand, order, iou_thresh) ==
    IF Len(cand) = 0 THEN [keep |-> <<>>, detections |-> <<>>]
    ELSE LET boxes == [k \in 1..Len(cand) |-> CornerBox(outputs[cand[k]])]
             keep == NmsNumpy(boxes, order, iou_thresh)
         IN  [keep |-> keep,
              detections |-> [k \in 1..Len(keep) |->
                                 YoloDetection(outputs[cand[keep[k]]], orig_shape)]]

(* Inputs of the YOLO decoder.  Boxes A, B, C are 500 wide in a chain:     *)
(* IoU(A,B) = 330/670, IoU(B,C) = 350/650, IoU(A,C) = 180/820; B and C     *)
(* reach past the 640 frame.  One box has negative width and zero height.  *)
(* A tensor holds the cells of up to MaxCells grid positions of YoloGrid,  *)
(* in grid order.                                                          *)
WithScores(box, scores) ==
    [cx |-> box.cx, cy |-> box.cy, w |-> box.w, h |-> box.h, scores |-> scores]

BoxA == [cx |-> 250, cy |-> 320, w |-> 500, h |-> 200]
BoxB == [cx |-> 420, cy |-> 320, w |-> 500, h |-> 200]
BoxC == [cx |-> 570, cy |-> 320, w |-> 500, h |-> 200]
BoxFlipped == [cx |-> 320, cy |-> 700, w |-> -100, h |-> 0]

YoloGrid ==
    <<WithScores(BoxA, <<90000, 10000>>),
      WithScores(BoxA, <<80000, 30000>>),
      WithScores(BoxB, <<20000, 80000>>),
      WithScores(BoxC, <<80000, 80000>>),
      WithScores(BoxC, <<50000, 50000>>),
      WithScores(BoxFlipped, <<20000, 80004>>),
      WithScores(BoxB, <<30000, 10000>>)>>

\* the cells at the grid positions S, in grid order
SubTensor(grid, S) ==
    LET pos == SelectSeq(Indices(Len(grid)), LAMBDA i : i \in S)
    IN  [k \in 1..Len(pos) |-> grid[pos[k]]]

SubTensors(grid, n) ==
    {SubTensor(grid, S) : S \in {T \in SUBSET (1..Len(grid)) : Cardinality(T) <= n}}

\* two boxes with IoU exactly 0.9 and confidences 0.9 and 0.8
OverlapScenario ==
    <<WithScores([cx |-> 50, cy |-> 50, w |-> 100, h |-> 100], <<90000, 0>>),
      WithScores([cx |-> 45, cy |-> 50, w |-> 90, h |-> 100], <<80000, 0>>)>>

YoloTensors == SubTensors(YoloGrid, MaxCells) \cup {OverlapScenario}
YoloShapes == {<<480, 640>>, <<1, 3>>}
ConfThresholds == {DefaultConfThreshold, 80000}
IouThresholds == {DefaultIouThresh, 50}

(* Crowded scenes: the first n cells, n from 20 to MaxCrowd, of a row of    *)
(* 20 x 20 boxes that lie 25 pixels apart, so that no two overlap, with    *)
(* pairwise different scores between 0.5 and 0.98 in no particular order.  *)
CrowdScore(k) == 50000 + 2000 * ((7 * k) % 25)
CrowdCell(k) ==
    WithScores([cx |-> 25 * k - 10, cy |-> 320, w |-> 20, h |-> 20], <<CrowdScore(k), 0>>)
CrowdSizes == WatchdogMaxDetections..MaxCrowd
CrowdTensors == {[k \in 1..n |-> CrowdCell(k)] : n \in CrowdSizes}

\* YOLOService.detect: session.run hands back the raw tensor of a frame
YoloRunOn(tensors) ==
    /\ yoloPhase = "idle"
    /\ \E t \in tensors, shape \in YoloShapes :
          /\ yoloOutputs' = t
          /\ yoloShape' = shape
    /\ yoloPhase' = "ran"
    /\ UNCHANGED <<argsortMemo, yoloCalls, wdVars, whisperVars, laterVars>>

YoloRun == YoloRunOn(YoloTensors)

\* the same on a crowded scene
YoloRunCrowd == YoloRunOn(CrowdTensors)

\* tensors whose cells are in rising and in equal confidence
OrderTensors == {SubTensor(YoloGrid, {5, 6}), SubTensor(YoloGrid, {2, 4})}
YoloRunOrder == YoloRunOn(OrderTensors)

\* one call postprocess(outputs, orig_shape, conf_thresh, iou_thresh)
YoloPostprocess ==
    /\ yoloPhase = "ran"
    /\ \E conf_thresh \in ConfThresholds, iou_thresh \in IouThresholds :
          LET cand == YoloCandidates(yoloOutputs, conf_thresh)
              confidences == [k \in 1..Len(cand) |-> CellConfidence(yoloOutputs[cand[k]])]
          IN  IF Len(cand) = 0
              THEN /\ yoloCalls' = yoloCalls \cup
                          {[conf |-> conf_thresh, iou |-> iou_thresh, cand |-> cand,
                            order |-> <<>>, keep |-> <<>>, detections |-> <<>>]}
                   /\ UNCHANGED argsortMemo
              ELSE \E order \in ArgsortChoices(argsortMemo, confidences) :
                      LET r == Postprocess(yoloOutputs, yoloShape, cand, order, iou_thresh)
                      IN  /\ yoloCalls' = yoloCalls \cup
                                 {[conf |-> conf_thresh, iou |-> iou_thresh, cand |-> cand,
                                   order |-> order, keep |-> r.keep,
                                   detections |-> r.detections]}
                          /\ argsortMemo' = argsortMemo \cup
                                 {[scores |-> confidences, order |-> order]}
    /\ UNCHANGED <<yoloOutputs, yoloShape, yoloPhase, wdVars, whisperVars, laterVars>>

----------------------------------------------------------------------------
(* Watchdog, watchdog.py.  A row of the standard tensor is a cell          *)
(* [cx, cy, w, h, scores]; a row of the QNN outputs is                     *)
(* [x1, y1, x2, y2, score, class_idx] in pixels.  A returned dict is       *)
(* [class_id, confidence, bbox]; its label is COCO_CLASSES[class_id].      *)

\* mask = max_scores > conf_threshold
WdMask(score, conf_threshold) == score > conf_threshold

\* round(float(x) / INPUT_SIZE, 4) of x given as num/den pixels, in 1/ScoreUnit
\* (10^4 and den * INPUT_SIZE are both divided by their common factor 80)
WdRound4(num, den) ==
    RoundHalfEven(num * (10000 \div 80), (den * INPUT_SIZE) \div 80) * (ScoreUnit \div 10000)

\* variant of SortByConfidenceDesc: the list is left in tensor order
SortNone(dets) == dets

\* list.sort(key=confidence, reverse=True): stable, equal keys keep their order
RECURSIVE SortByConfidenceDesc(_)
SortByConfidenceDesc(dets) ==
    IF Len(dets) <= 1 THEN dets
    ELSE LET head == SortByConfidenceDesc(SubSeq(dets, 1, Len(dets) - 1))
             d == dets[Len(dets)]
             before == SelectSeq(head, LAMBDA e : e.confidence >= d.confidence)
             after == SelectSeq(head, LAMBDA e : e.confidence < d.confidence)
         IN  before \o <<d>> \o after

\* detections[:20]
WdCap(dets) == SubSeq(dets, 1, Min2(Len(dets), WatchdogMaxDetections))

WdRawDetection(cell) ==
    LET b == CornerBox(cell)
    IN  [class_id |-> CellClassId(cell),
         confidence |-> RoundTo(CellConfidence(cell), 100),
         bbox |-> <<WdRound4(b[1], 2), WdRound4(b[2], 2), WdRound4(b[3], 2), WdRound4(b[4], 2)>>]

PostprocessRaw(output, conf_threshold) ==
    LET rows == SelectSeq(output, LAMBDA c : WdMask(CellConfidence(c), conf_threshold))
        detections == [i \in 1..Len(rows) |-> WdRawDetection(rows[i])]
    IN  WdCap(SortByConfidenceDesc(detections))

WdQnnDetection(row) ==
    [class_id |-> row.class_idx,
     confidence |-> RoundTo(row.score, 100),
     bbox |-> <<WdRound4(row.x1, 1), WdRound4(row.y1, 1), WdRound4(row.x2, 1), WdRound4(row.y2, 1)>>]

PostprocessQnn(outputs, conf_threshold) ==
    LET rows == SelectSeq(outputs, LAMBDA r : WdMask(r.score, conf_threshold))
        detections == [i \in 1..Len(rows) |-> WdQnnDetection(rows[i])]
    IN  WdCap(SortByConfidenceDesc(detections))

(* Inputs of the Watchdog.  Two cells carry the same box, one cell scores  *)
(* exactly the default threshold 0.45, one box reaches left of the frame.  *)
BoxLeft == [cx |-> 10, cy |-> 320, w |-> 100, h |-> 200]

WdGrid ==
    <<WithScores(BoxA, <<90000, 10000>>),
      WithScores(BoxA, <<20000, 80000>>),
      WithScores(BoxC, <<45000, 45000>>),
      WithScores(BoxLeft, <<60040, 30000>>),
      WithScores(BoxB, <<60000, 60049>>),
      WithScores(BoxB, <<30000, 10000>>)>>

QnnRow(x1, y1, x2, y2, score, class_idx) ==
    [x1 |-> x1, y1 |-> y1, x2 |-> x2, y2 |-> y2, score |-> score, class_idx |-> class_idx]

WdQnnGrid ==
    <<QnnRow(0, 220, 500, 420, 90000, 0),
      QnnRow(0, 220, 500, 420, 80000, 1),
      QnnRow(320, 220, 820, 420, 45000, 0),
      QnnRow(-40, 220, 60, 420, 60040, 0),
      QnnRow(170, 220, 670, 420, 60049, 1),
      QnnRow(170, 220, 670, 420, 30000, 0)>>

WdConfidences == {WatchdogDefaultConfidence, 60000}

\* main._get_watchdog: the Watchdog is built on first use; _load_model sets
\* _loaded and _qnn_format from the model file
WdConstruct ==
    /\ wdPhase = "none"
    /\ \E loaded \in BOOLEAN, qnn \in BOOLEAN :
          /\ (~loaded => ~qnn)
          /\ wdLoaded' = loaded
          /\ wdQnnFormat' = qnn
    /\ wdConfidence' = WatchdogDefaultConfidence
    /\ wdPhase' = "idle"
    /\ UNCHANGED <<wdRaw, wdQnn, wdDetections, wdConfUsed, yoloVars, whisperVars, laterVars>>

\* main.handle_detect: watchdog.confidence = conf
WdSetConfidence ==
    /\ wdPhase # "none"
    /\ \E conf \in WdConfidences : wdConfidence' = conf
    /\ UNCHANGED <<wdLoaded, wdQnnFormat, wdRaw, wdQnn, wdDetections, wdConfUsed, wdPhase,
                   yoloVars, whisperVars, laterVars>>

\* Watchdog.detect with no model loaded
WdDetectUnloaded ==
    /\ wdPhase # "none" /\ ~wdLoaded
    /\ wdDetections' = <<>>
    /\ wdPhase' = "unloaded"
    /\ UNCHANGED <<wdLoaded, wdQnnFormat, wdConfidence, wdRaw, wdQnn, wdConfUsed,
                   yoloVars, whisperVars, laterVars>>

\* Watchdog.detect on a standard model: session.run, then _postprocess_raw
WdDetectRawOn(tensors) ==
    /\ wdPhase # "none" /\ wdLoaded /\ ~wdQnnFormat
    /\ \E t \in tensors :
          /\ wdRaw' = t
          /\ wdDetections' = PostprocessRaw(t, wdConfidence)
    /\ wdConfUsed' = wdConfidence
    /\ wdPhase' = "raw"
    /\ UNCHANGED <<wdLoaded, wdQnnFormat, wdConfidence, wdQnn, yoloVars, whisperVars, laterVars>>

WdDetectRaw == WdDetectRawOn(SubTensors(WdGrid, MaxCells))

\* Watchdog.detect on a QNN precompiled model: session.run, then _postprocess_qnn
WdDetectQnnOn(tensors) ==
    /\ wdPhase # "none" /\ wdLoaded /\ wdQnnFormat
    /\ \E t \in tensors :
          /\ wdQnn' = t
          /\ wdDetections' = PostprocessQnn(t, wdConfidence)
    /\ wdConfUsed' = wdConfidence
    /\ wdPhase' = "qnn"
    /\ UNCHANGED <<wdLoaded, wdQnnFormat, wdConfidence, wdRaw, yoloVars, whisperVars, laterVars>>

WdDetectQnn == WdDetectQnnOn(SubTensors(WdQnnGrid, MaxCells))

\* the crowded scenes as the QNN model's post-processed rows
CrowdQnnRow(k) ==
    QnnRow(25 * k - 20, 310, 25 * k, 330, CrowdScore(k), 0)
CrowdQnnTensors == {[k \in 1..n |-> CrowdQnnRow(k)] : n \in CrowdSizes}

\* Watchdog.detect on a crowded scene
WdDetectRawCrowd == WdDetectRawOn(CrowdTensors)
WdDetectQnnCrowd == WdDetectQnnOn(CrowdQnnTensors)

\* Watchdog.detect on a crowded scene or on the whole grid
WdDetectRawOrder == WdDetectRawOn({[k \in 1..MaxCrowd |-> CrowdCell(k)], WdGrid})
WdDetectQnnOrder == WdDetectQnnOn({[k \in 1..MaxCrowd |-> CrowdQnnRow(k)], WdQnnGrid})

----------------------------------------------------------------------------
(* _compute_log_mel_spectrogram, whisper_service.py: the framing.  The     *)
(* returned array is (1, rows of _MEL_FILTERS, n_frames).                  *)

\* audio[:WHISPER_MAX_FRAMES] or np.pad(audio, (0, WHISPER_MAX_FRAMES - len(audio)))
PaddedLength(n) ==
    IF n > WHISPER_MAX_FRAMES THEN WHISPER_MAX_FRAMES ELSE n + (WHISPER_MAX_FRAMES - n)

\* n_frames = 1 + (len(audio) - WHISPER_N_FFT) // WHISPER_HOP_LENGTH
FrameCount(n) == 1 + (PaddedLength(n) - WHISPER_N_FFT) \div WHISPER_HOP_LENGTH

LogMelShape(n) == <<1, WHISPER_N_MELS, FrameCount(n)>>

\* lengths of the decoded waveform: every quarter second up to past 30 s, and
\* the lengths around 30 s
AudioStep == WHISPER_SAMPLE_RATE \div 4
AudioLengths ==
    {k * AudioStep : k \in 0..MaxAudioChunks}
    \cup {WHISPER_MAX_FRAMES - 1, WHISPER_MAX_FRAMES + 1, WHISPER_MAX_FRAMES + 240}

(* The values.  The STFT and the filterbank are linear and their outputs  *)
(* are not negative: a band of a frame has the power 0 when every sample   *)
(* under the window is 0, and otherwise a positive power, kept by its      *)
(* decimal exponent.  The result of a logarithm is a finite number or      *)
(* -inf.                                                                   *)
ZeroPower == [zero |-> TRUE, exp |-> 0]
PowerOfTen(e) == [zero |-> FALSE, exp |-> e]

Finite(v) == [finite |-> TRUE, v |-> v]
NegInf == [finite |-> FALSE, v |-> 0]

\* an audio buffer holds zeros only, or a signal whose strongest mel band has
\* the power 10^exp in every frame that reaches into it
SilentKind == [silent |-> TRUE, exp |-> 0]
Loud(e) == [silent |-> FALSE, exp |-> e]
AudioKinds == {SilentKind} \cup {Loud(e) : e \in {-12, -3, 2}}

\* the powers in column f of _MEL_FILTERS @ magnitudes.T: frame f holds the
\* samples from f * hop on, the first of them under the zero of the window; a
\* signal has a second band nine decades below the strongest
FramePowers(f, n, kind) ==
    IF kind.silent \/ ~(WHISPER_HOP_LENGTH * f + 1 < Min2(n, WHISPER_MAX_FRAMES))
    THEN {ZeroPower}
    ELSE {PowerOfTen(kind.exp), PowerOfTen(kind.exp - 9)}

\* the powers of the whole array: the frames between the first and the last
\* repeat the powers of one of the two
MelPowers(n, kind) ==
    FramePowers(0, n, kind) \cup FramePowers(FrameCount(n) - 1, n, kind)

\* variant of ClampPower: no clamp
ClampPowerNone(p) == p

\* np.maximum(mel_spec, 1e-10)
ClampPower(p) == IF p.zero \/ p.exp < -10 THEN PowerOfTen(-10) ELSE p

\* np.log10
Log10(p) == IF p.zero THEN NegInf ELSE Finite(p.exp)

\* ndarray.max() of a non-empty array of logarithms
ArrayMax(S) ==
    IF \E x \in S : x.finite
    THEN Finite(CHOOSE v \in {x.v : x \in {y \in S : y.finite}} :
                    \A x \in S : x.finite => x.v <= v)
    ELSE NegInf

\* np.maximum(a, b)
Maximum(a, b) ==
    IF ~a.finite THEN b
    ELSE IF ~b.finite THEN a
    ELSE Finite(Max2(a.v, b.v))

\* x + k
Plus(x, k) == IF x.finite THEN Finite(x.v + k) ELSE x

\* the values of the returned array, times 4:
\* log_mel = np.log10(np.maximum(mel_spec, 1e-10));
\* log_mel = np.maximum(log_mel, log_mel.max() - 8.0); (log_mel + 4.0) / 4.0
LogMelValues(n, kind) ==
    LET log_mel == {Log10(ClampPower(p)) : p \in MelPowers(n, kind)}
        max_val == ArrayMax(log_mel)
    IN  {Plus(Maximum(x, Plus(max_val, -8)), 4) : x \in log_mel}

\* _compute_log_mel_spectrogram(audio)
ComputeLogMelOn(lengths) ==
    /\ \E n \in lengths, kind \in AudioKinds :
          /\ audioLen' = n
          /\ audioKind' = kind
          /\ melShape' = LogMelShape(n)
          /\ melValues' = LogMelValues(n, kind)
    /\ melPhase' = "done"
    /\ UNCHANGED <<tokenIds, transcription, sttPhase, yoloVars, wdVars, laterVars>>

ComputeLogMel == ComputeLogMelOn(AudioLengths)

\* lengths around the first sample, the last frame and the 30 s limit
EdgeAudioLengths ==
    {0, 1, 2, WHISPER_SAMPLE_RATE, WHISPER_MAX_FRAMES - WHISPER_N_FFT - WHISPER_HOP_LENGTH,
     WHISPER_MAX_FRAMES - 1, WHISPER_MAX_FRAMES, WHISPER_MAX_FRAMES + 240}

\* the same on the edge lengths
ComputeLogMelEdge == ComputeLogMelOn(EdgeAudioLengths)

----------------------------------------------------------------------------
(* _build_byte_decoder and _greedy_decode_tokens, whisper_service.py.      *)
(* Text is a sequence of Unicode code points.                              *)

\* bs before the loop: '!'..'~', U+00A1..U+00AC, U+00AE..U+00FF
PrintableBytes ==
    [i \in 1..94 |-> 32 + i] \o [i \in 1..12 |-> 160 + i] \o [i \in 1..82 |-> 173 + i]

\* bs after the loop: the bytes not in bs are appended in increasing order
ByteOrder ==
    PrintableBytes
        \o SelectSeq([i \in 1..256 |-> i - 1], LAMBDA b : b \notin Range(PrintableBytes))

\* bytes([byte_val]).decode("utf-8", errors="replace")
DecodeByte(byte_val) == IF byte_val < 128 THEN byte_val ELSE ReplacementChar

\* variant of ByteDecoder: token id t is the byte t
ByteDecoderIdentity(token_id) == DecodeByte(token_id)

\* _BYTE_DECODER[token_id], token_id in 0..255
ByteDecoder(token_id) == DecodeByte(ByteOrder[token_id + 1])

\* variant of TokenChars: a merge token appends nothing
TokenCharsNoFallback(tid) ==
    IF tid >= SpecialTokenFloor \/ tid < 0 THEN <<>>
    ELSE IF tid \in 0..255 THEN <<ByteDecoder(tid)>>
    ELSE <<>>

\* the characters one token appends to chars
TokenChars(tid) ==
    IF tid >= SpecialTokenFloor \/ tid < 0 THEN <<>>
    ELSE IF tid \in 0..255 THEN <<ByteDecoder(tid)>>
    ELSE <<Space>>

\* variant of IsSpace: only the blank is white space
IsSpaceBlankOnly(ch) == ch = Space

\* str.isspace for the code points the decoder can emit
IsSpace(ch) == ch \in {9, 10, 11, 12, 13, 28, 29, 30, 31, 32}

\* " ".join(text.split())
RECURSIVE SplitJoin(_, _, _)
SplitJoin(text, out, gap) ==
    IF Len(text) = 0 THEN out
    ELSE IF IsSpace(Head(text)) THEN SplitJoin(Tail(text), out, Len(out) > 0)
    ELSE SplitJoin(Tail(text),
                   (IF gap THEN Append(out, Space) ELSE out) \o <<Head(text)>>,
                   FALSE)

\* str.strip()
RECURSIVE Strip(_)
Strip(text) ==
    IF Len(text) = 0 THEN text
    ELSE IF IsSpace(Head(text)) THEN Strip(Tail(text))
    ELSE IF IsSpace(text[Len(text)]) THEN Strip(SubSeq(text, 1, Len(text) - 1))
    ELSE text

RECURSIVE JoinChars(_)
JoinChars(token_ids) ==
    IF Len(token_ids) = 0 THEN <<>>
    ELSE TokenChars(Head(token_ids)) \o JoinChars(Tail(token_ids))

GreedyDecodeTokens(token_ids) == Strip(SplitJoin(JoinChars(token_ids), <<>>, FALSE))

\* variant of TruncateAtEot: no truncation
TruncateNever(token_ids) == token_ids

\* if EOT_TOKEN in token_ids: token_ids = token_ids[: token_ids.index(EOT_TOKEN)]
TruncateAtEot(token_ids) ==
    IF EOT_TOKEN \in Range(token_ids)
    THEN SubSeq(token_ids, 1,
                (CHOOSE k \in DOMAIN token_ids :
                    token_ids[k] = EOT_TOKEN /\ \A j \in 1..(k - 1) : token_ids[j] # EOT_TOKEN)
                - 1)
    ELSE token_ids

\* "[empty transcription]"
EmptyTranscription ==
    <<91, 101, 109, 112, 116, 121, 32, 116, 114, 97, 110, 115, 99, 114, 105, 112, 116,
      105, 111, 110, 93>>

\* text if text else "[empty transcription]"
TranscriptionText(token_ids) ==
    LET text == GreedyDecodeTokens(TruncateAtEot(token_ids))
    IN  IF Len(text) > 0 THEN text ELSE EmptyTranscription

(* Token sequences the model may produce: all sequences of up to MaxTokens *)
(* tokens over a byte token, the space byte token, a merge token, EOT and  *)
(* a special token; every single byte token; and the two "Hello" lists.    *)
TokenAlphabet == {39, 220, 999, EOT_TOKEN, SpecialTokenFloor}
HelloAsBytes == <<72, 101, 108, 108, 111, EOT_TOKEN, 999>>
HelloAsTokens == <<39, 68, 75, 75, 78, EOT_TOKEN, 999>>
TokenLists ==
    SeqsUpTo(TokenAlphabet, MaxTokens)
    \cup {<<t>> : t \in 0..255}
    \cup {HelloAsBytes, HelloAsTokens}

\* WhisperService.transcribe with a loaded session: EOT truncation and decoding
\* of the token_ids the model produced
Transcribe ==
    /\ \E ids \in TokenLists :
          /\ tokenIds' = ids
          /\ transcription' = TranscriptionText(ids)
    /\ sttPhase' = "done"
    /\ UNCHANGED <<audioLen, melShape, melPhase, audioKind, melValues, yoloVars, wdVars,
                   laterVars>>

(* Token lists handed to _greedy_decode_tokens directly: every list of up *)
(* to MaxTokens tokens over a letter, the space and tab byte tokens, a     *)
(* merge token, EOT and a special token; every single byte token; the ends *)
(* of the merge range, a negative id and a later special token; and a list *)
(* with whitespace at both ends and a run of it in the middle.             *)
DecodeAlphabet == {39, 197, 220, 999, EOT_TOKEN, SpecialTokenFloor}
SpacedTokens == <<220, 39, 220, 197, 999, 68, 197>>
DecodeLists ==
    SeqsUpTo(DecodeAlphabet, MaxTokens)
    \cup {<<t>> : t \in 0..255}
    \cup {<<256>>, <<50255>>, <<-1>>, <<50362>>, <<39, -1, 50362, 256, 68>>, SpacedTokens}

\* a call of _greedy_decode_tokens
GreedyDecode ==
    /\ \E ids \in DecodeLists :
          /\ gdTokens' = ids
          /\ gdChars' = JoinChars(ids)
          /\ gdText' = GreedyDecodeTokens(ids)
    /\ gdPhase' = "done"
    /\ UNCHANGED <<yoloVars, wdVars, whisperVars, patchVars, faceVars, entryVars, cacheVars, serverVars, moreVars>>

----------------------------------------------------------------------------
(* AudioDetector._preprocess and _stft_magnitude, audiodetector.py: the    *)
(* framing.  A row of mel_spec is kept as the index of its STFT frame; a   *)
(* row of zeros has frame 0.                                               *)

\* n_frames = max(1, 1 + (len(signal) - window_len) // hop)
StftFrameCount(n) == Max2(1, 1 + (n - STFT_WINDOW) \div STFT_HOP)

\* mag @ mel_fb.T, then the log: one row of MEL_BANDS values per frame
MelSpec(n) == [i \in 1..StftFrameCount(n) |-> [frame |-> i, bands |-> MEL_BANDS]]

ZeroRow == [frame |-> 0, bands |-> MEL_BANDS]

\* variant of FullPatches: the loop runs while start + PATCH_FRAMES < n_frames
RECURSIVE FullPatchesStrict(_, _)
FullPatchesStrict(mel_spec, start) ==
    IF start + PATCH_FRAMES < Len(mel_spec)
    THEN <<SubSeq(mel_spec, start + 1, start + PATCH_FRAMES)>>
             \o FullPatchesStrict(mel_spec, start + PATCH_HOP)
    ELSE <<>>

\* while start + PATCH_FRAMES <= n_frames: append mel_spec[start : start + PATCH_FRAMES]
RECURSIVE FullPatches(_, _)
FullPatches(mel_spec, start) ==
    IF start + PATCH_FRAMES <= Len(mel_spec)
    THEN <<SubSeq(mel_spec, start + 1, start + PATCH_FRAMES)>>
             \o FullPatches(mel_spec, start + PATCH_HOP)
    ELSE <<>>

\* variant of PadPatch: the short spectrogram is returned as it is
PadPatchNone(mel_spec) == mel_spec

\* padded = np.zeros((PATCH_FRAMES, MEL_BANDS)); padded[:n_frames] = mel_spec[:PATCH_FRAMES]
PadPatch(mel_spec) ==
    LET head == SubSeq(mel_spec, 1, Min2(Len(mel_spec), PATCH_FRAMES))
    IN  [i \in 1..PATCH_FRAMES |-> IF i <= Len(mel_spec) THEN head[i] ELSE ZeroRow]

Preprocess(n) ==
    LET mel_spec == MelSpec(n)
        full == FullPatches(mel_spec, 0)
    IN  IF Len(full) = 0 THEN <<PadPatch(mel_spec)>> ELSE full

\* lengths of the PCM chunk: every 25 ms up to 3 s, and the lengths around one
\* STFT window and around one patch
PcmStep == STFT_WINDOW
PcmLengths ==
    {k * PcmStep : k \in 0..MaxPcmChunks}
    \cup {1, STFT_WINDOW - 1, STFT_WINDOW + 1, STFT_WINDOW + STFT_HOP,
          (PATCH_FRAMES - 1) * STFT_HOP + STFT_WINDOW - 1}

\* the energy of the strongest band of row i (from 1) of mag @ mel_fb.T:
\* frame i holds the samples from (i - 1) * hop on, the first of them under
\* the zero of the window
FrameEnergy(i, n, kind) ==
    IF kind.silent \/ ~(STFT_HOP * (i - 1) + 1 < n) THEN ZeroPower ELSE PowerOfTen(kind.exp)

\* mel_spec + 0.001
PlusOffset(p) == [zero |-> p.zero, exp |-> p.exp, offset |-> TRUE]

\* np.log of a quantity that is not negative, in 1e-6: ln(0.001), ln(0.001 +
\* 1e-12), ln(0.002) and ln(100.001) for the energies of the inputs
NpLog(q) ==
    IF q.zero /\ ~q.offset THEN NegInf
    ELSE IF q.zero THEN Finite(-6907755)
    ELSE CASE q.exp = -12 -> Finite(-6907755)
           [] q.exp = -3 -> Finite(-6214608)
           [] q.exp = 2 -> Finite(4605180)

\* the value of a row of the batch in its strongest band: a row of the
\* spectrogram holds np.log(mel_spec + 0.001), a row of the padding 0.0
RowValue(row, n, kind) ==
    IF row.frame = 0 THEN Finite(0) ELSE NpLog(PlusOffset(FrameEnergy(row.frame, n, kind)))

\* the values of the batch
BatchValues(batch, n, kind) ==
    UNION {{RowValue(batch[k][i], n, kind) : i \in DOMAIN batch[k]} : k \in DOMAIN batch}

\* AudioDetector._preprocess(pcm)
AudioPreprocessOn(lengths, kinds) ==
    /\ \E n \in lengths, kind \in kinds :
          LET batch == Preprocess(n)
          IN  /\ pcmLen' = n
              /\ pcmKind' = kind
              /\ melFrames' = StftFrameCount(n)
              /\ patches' = batch
              /\ patchValues' = BatchValues(batch, n, kind)
    /\ patchPhase' = "done"
    /\ UNCHANGED <<yoloVars, wdVars, whisperVars, decodeVars, faceVars, entryVars, cacheVars, serverVars, moreVars>>

AudioPreprocess == AudioPreprocessOn(PcmLengths, {SilentKind, Loud(2)})

\* lengths around the first sample, one STFT window and one patch
EdgePcmLengths ==
    {0, 1, 2, STFT_WINDOW, STFT_WINDOW + STFT_HOP,
     (PATCH_FRAMES - 1) * STFT_HOP + STFT_WINDOW - 1,
     (PATCH_FRAMES - 1) * STFT_HOP + STFT_WINDOW,
     (PATCH_FRAMES + PATCH_HOP - 1) * STFT_HOP + STFT_WINDOW}

\* the same on the edge lengths
AudioPreprocessEdge == AudioPreprocessOn(EdgePcmLengths, AudioKinds)

----------------------------------------------------------------------------
(* FaceService, face_service.py.  An anchor coordinate (x + 0.5) / grid is *)
(* kept as the fraction <<2x + 1, 2 * grid>>.  Decoded coordinates are in  *)
(* units of 1/FaceUnit of the frame: dx / 128 is 2 * dx units, w / 2 / 128 *)
(* is w units.  Raw offsets and sizes are whole numbers.                   *)

\* for _ in range(num_anchors_per_cell): anchors.append([cx, cy])
RECURSIVE CellAnchors(_, _)
CellAnchors(anchor, remaining) ==
    IF remaining = 0 THEN <<>> ELSE <<anchor>> \o CellAnchors(anchor, remaining - 1)

\* for x in range(grid_size)
RECURSIVE RowAnchors(_, _, _)
RowAnchors(grid_size, y, x) ==
    IF x >= grid_size THEN <<>>
    ELSE CellAnchors([cx |-> <<2 * x + 1, 2 * grid_size>>,
                      cy |-> <<2 * y + 1, 2 * grid_size>>], AnchorsPerCell)
             \o RowAnchors(grid_size, y, x + 1)

\* for y in range(grid_size)
RECURSIVE GridAnchors(_, _)
GridAnchors(grid_size, y) ==
    IF y >= grid_size THEN <<>>
    ELSE RowAnchors(grid_size, y, 0) \o GridAnchors(grid_size, y + 1)

\* for stride in strides: grid_size = input_size // stride
RECURSIVE StrideAnchors(_, _)
StrideAnchors(input_size, strides) ==
    IF Len(strides) = 0 THEN <<>>
    ELSE GridAnchors(input_size \div Head(strides), 0)
             \o StrideAnchors(input_size, Tail(strides))

GenerateAnchors(input_size) == StrideAnchors(input_size, <<8, 16>>)

\* the table _generate_anchors() builds with its default argument
DefaultAnchors == GenerateAnchors(FaceInputSize)

\* None, for a cache that holds a table
NoTable == <<>>

\* variant of GetAnchors: a later call hands out and keeps a shortened table
GetAnchorsTruncating(cache) ==
    IF cache = NoTable THEN DefaultAnchors ELSE SubSeq(cache, 1, Len(cache) - 1)

\* if cls._anchors is None: cls._anchors = cls._generate_anchors()
GetAnchors(cache) == IF cache = NoTable THEN DefaultAnchors ELSE cache

\* an anchor coordinate in 1/FaceUnit
AnchorUnits(frac) == (frac[1] * FaceUnit) \div frac[2]

\* 1 / (1 + exp(-x)) in 1/ScoreUnit, for the logits of the inputs
Sigmoid(x) ==
    CASE x = -2 -> 11920
      [] x = -1 -> 26894
      [] x = 0 -> 50000
      [] x = 1 -> 73106
      [] x = 2 -> 88080

\* a row of the regressor tensor that carries no face: zero offsets, logit -2
BackgroundRow(idx) ==
    [idx |-> idx, dx |-> 0, dy |-> 0, w |-> 0, h |-> 0, logit |-> -2,
     lm |-> [i \in 1..12 |-> 0]]

\* raw_boxes[idx] with raw_scores[idx], idx counted from 0
FaceRow(tensor, idx) ==
    IF \E r \in tensor.active : r.idx = idx
    THEN CHOOSE r \in tensor.active : r.idx = idx
    ELSE BackgroundRow(idx)

\* [x1[idx], y1[idx], x2[idx], y2[idx]]; a one-row tensor is broadcast over
\* the anchors
FaceBox(tensor, anchors, idx) ==
    LET r == FaceRow(tensor, IF tensor.n = 1 THEN 0 ELSE idx)
        cx == AnchorUnits(anchors[idx + 1].cx) + 2 * r.dx
        cy == AnchorUnits(anchors[idx + 1].cy) + 2 * r.dy
    IN  <<cx - r.w, cy - r.h, cx + r.w, cy + r.h>>

\* conf_mask = scores >= settings.confidence_threshold
FaceMask(score, threshold) == score >= threshold

\* np.where(conf_mask)[0]: the rows that pass, in increasing order.  A row
\* that is not in tensor.active is a background row.
FaceIndices(tensor, threshold) ==
    LET active == {r.idx : r \in {q \in tensor.active :
                                     /\ q.idx < tensor.n
                                     /\ FaceMask(Sigmoid(q.logit), threshold)}}
        background ==
            IF FaceMask(Sigmoid(BackgroundRow(0).logit), threshold)
            THEN {idx \in 0..(tensor.n - 1) : \A r \in tensor.active : r.idx # idx}
            ELSE {}
        passing == active \cup background
        RECURSIVE Sorted(_)
        Sorted(S) ==
            IF S = {} THEN <<>>
            ELSE LET m == CHOOSE x \in S : \A y \in S : x <= y
                 IN  <<m>> \o Sorted(S \ {m})
    IN  Sorted(passing)

\* scores[indices]
FaceScores(tensor, threshold) ==
    LET indices == FaceIndices(tensor, threshold)
    IN  [k \in 1..Len(indices) |-> Sigmoid(FaceRow(tensor, indices[k]).logit)]

\* variant: the comparison with 0.6 in the place of 0.3
FaceIouAboveSixTenths(a, b) ==
    /\ BoxUnion(a, b) > 0
    /\ BoxIntersection(a, b) * 10 > 2 * FaceIouTenths * BoxUnion(a, b)

\* _compute_iou(a, b) > 0.3
FaceIouAbove(a, b) ==
    /\ BoxUnion(a, b) > 0
    /\ BoxIntersection(a, b) * 10 > FaceIouTenths * BoxUnion(a, b)

\* the greedy loop over order, from position k
RECURSIVE FaceNmsLoop(_, _, _, _, _, _)
FaceNmsLoop(tensor, anchors, order, k, kept, used) ==
    IF k > Len(order) THEN kept
    ELSE LET idx == order[k]
         IN  IF idx \in used
             THEN FaceNmsLoop(tensor, anchors, order, k + 1, kept, used)
             ELSE FaceNmsLoop(tensor, anchors, order, k + 1, Append(kept, idx),
                      used \cup {other \in Range(order) :
                                    /\ other \notin used
                                    /\ other # idx
                                    /\ FaceIouAbove(FaceBox(tensor, anchors, idx),
                                                    FaceBox(tensor, anchors, other))})

FaceDetectionOf(tensor, anchors, idx) ==
    LET r == FaceRow(tensor, idx)
        b == FaceBox(tensor, anchors, idx)
    IN  [bbox |-> [k \in 1..4 |-> Clip(b[k], 0, FaceUnit)],
         confidence |-> RoundTo(Sigmoid(r.logit), 10),
         landmarks |->
             [i \in 1..6 |->
                 <<Clip(AnchorUnits(anchors[idx + 1].cx) + 2 * r.lm[2 * i - 1], 0, FaceUnit),
                   Clip(AnchorUnits(anchors[idx + 1].cy) + 2 * r.lm[2 * i], 0, FaceUnit)>>]]

\* detect_faces after session.run.  perm is what np.argsort(-scores[indices])
\* returned.  The status is "ok" when a list is returned, and otherwise the
\* exception NumPy raises: the sum of an (A,) and an (N,) array is a
\* ValueError unless N is A or 1, a column that does not exist an IndexError.
DetectFaces(tensor, anchors, threshold, perm) ==
    LET indices == FaceIndices(tensor, threshold)
        order == [k \in 1..Len(indices) |-> indices[perm[k]]]
        kept == FaceNmsLoop(tensor, anchors, order, 1, <<>>, {})
    IN  IF tensor.channels < 1
        THEN [status |-> "IndexError", detections |-> <<>>]
        ELSE IF tensor.n # Len(anchors) /\ tensor.n # 1
        THEN [status |-> "ValueError", detections |-> <<>>]
        ELSE IF tensor.channels < FaceBoxChannels
        THEN [status |-> "IndexError", detections |-> <<>>]
        ELSE IF Len(indices) = 0
        THEN [status |-> "ok", detections |-> <<>>]
        ELSE IF tensor.channels < FaceChannels
        THEN [status |-> "IndexError", detections |-> <<>>]
        ELSE [status |-> "ok",
              detections |-> [k \in 1..Len(kept) |-> FaceDetectionOf(tensor, anchors, kept[k])]]

(* Inputs of the face detector.  Rows 0 and 1 share an anchor; the logit 0 *)
(* gives a score of exactly the threshold 0.5; one row has a negative      *)
(* width, one has landmark offsets that reach past the frame.              *)
ActiveRow(idx, dx, dy, w, h, logit) ==
    [idx |-> idx, dx |-> dx, dy |-> dy, w |-> w, h |-> h, logit |-> logit,
     lm |-> [i \in 1..12 |-> 0]]

FarLandmarks(row) ==
    [row EXCEPT !.lm = [i \in 1..12 |-> IF i % 2 = 1 THEN 200 ELSE -200]]

FaceGrid ==
    {ActiveRow(0, 20, 20, 40, 40, 2), ActiveRow(1, 22, 20, 40, 40, 1),
     ActiveRow(0, 0, 0, 30, 30, -1), ActiveRow(300, 0, 0, 30, 30, 0),
     ActiveRow(639, 10, 10, 60, 60, 2), ActiveRow(1, 0, 0, 10, 10, -1),
     ActiveRow(2, 0, 0, -30, 30, 2), FarLandmarks(ActiveRow(3, 0, 0, 30, 30, 1))}

FaceRowCounts == {640, 896, 1, 0}
FaceChannelCounts == {FaceChannels, FaceChannels - 1, FaceBoxChannels - 1}

\* three faces in a chain: the boxes of rows 100 and 101 and of rows 101 and
\* 102 overlap with IoU 0.54, those of rows 100 and 102 with IoU 0.25; the
\* three logits are given to them in every order
FaceChain(la, lb, lc) ==
    [n |-> 640, channels |-> FaceChannels,
     active |-> {ActiveRow(100, 0, 0, 20, 20, la), ActiveRow(101, 6, 0, 20, 20, lb),
                 ActiveRow(102, 4, 0, 20, 20, lc)}]
FaceChains ==
    {FaceChain(l[1], l[2], l[3]) : l \in {p \in [1..3 -> 0..2] : Range(p) = 0..2}}

FaceTensors ==
    {[n |-> n, channels |-> c, active |-> S] :
        n \in FaceRowCounts, c \in FaceChannelCounts,
        S \in {T \in SUBSET FaceGrid :
                  /\ Cardinality(T) <= MaxFaces
                  /\ \A r1, r2 \in T : r1.idx = r2.idx => r1 = r2}}
    \cup FaceChains

\* every row the tensor carries lies within its row count
WellFormed(tensor) == \A r \in tensor.active : r.idx < tensor.n

\* well-shaped tensors that carry two faces
FacePairs ==
    {t \in FaceTensors :
        t.n = 640 /\ t.channels = FaceChannels /\ Cardinality(t.active) = 2}

\* FaceService.detect_faces with a session for the model
FaceDetectOn(tensors) ==
    /\ \E tensor \in tensors :
          /\ WellFormed(tensor)
          /\ faceTensor' = tensor
          /\ anchorsCache' = GetAnchors(anchorsCache)
          /\ \E perm \in ArgsortDesc(FaceScores(tensor, DefaultConfThreshold)) :
                faceResult' = DetectFaces(tensor, GetAnchors(anchorsCache),
                                          DefaultConfThreshold, perm)
    /\ facePhase' = "done"
    /\ UNCHANGED <<yoloVars, wdVars, whisperVars, decodeVars, patchVars, entryVars, cacheVars, serverVars, moreVars>>

FaceDetect == FaceDetectOn(FaceTensors)

\* detect_faces on a frame with two faces
FaceDetectPair == FaceDetectOn(FacePairs)

\* detect_faces on a frame with three faces
FaceDetectChain == FaceDetectOn(FaceChains)

----------------------------------------------------------------------------
(* The inference entry points and OnnxRuntimeManager.get_session.  Whether *)
(* the model file exists is read from the file system at each call.        *)

\* get_session(model_name): a cached session is returned without looking at
\* the file; otherwise a missing file raises FileNotFoundError
SessionFor(cache, model_name, file_exists) ==
    IF model_name \in cache THEN "cached"
    ELSE IF ~file_exists THEN "FileNotFoundError"
    ELSE "loaded"

\* "[model not available]"
ModelNotAvailable ==
    <<91, 109, 111, 100, 101, 108, 32, 110, 111, 116, 32, 97, 118, 97, 105, 108, 97,
      98, 108, 101, 93>>

\* _demo_detect: 1 to 4 synthetic detections.  The random generator is seeded
\* from the frame; its draws are a choice among class ids of demo_objects, with
\* one box and one confidence from the ranges the code draws from.
DemoClassIds == {0, 2, 16}
DemoDetection(class_id) ==
    [class_id |-> class_id, confidence |-> 76000,
     bbox |-> <<40000, 40000, 60000, 60000>>]
DemoDetections ==
    {[k \in 1..Len(ids) |-> DemoDetection(ids[k])] :
        ids \in SeqsUpTo(DemoClassIds, MaxDemoDetections) \ {<<>>}}

EntryYoloTensors == {<<>>, OverlapScenario}
EntryFaceTensors ==
    {[n |-> 640, channels |-> FaceChannels, active |-> {}],
     [n |-> 640, channels |-> FaceChannels, active |-> {ActiveRow(300, 0, 0, 30, 30, 0)}]}
EntryTokenLists == {<<>>, HelloAsTokens}

\* YOLOService.detect
YoloDetect ==
    /\ \E file_exists \in BOOLEAN :
          IF ~file_exists
          THEN /\ \E demo \in DemoDetections :
                     entryCall' = [service |-> "yolo", missing |-> TRUE,
                                   outcome |-> "detections", value |-> demo]
               /\ UNCHANGED sessions
          ELSE /\ sessions' = sessions \cup {"yolo"}
               /\ \E outputs \in EntryYoloTensors, orig_shape \in YoloShapes :
                     LET cand == YoloCandidates(outputs, DefaultConfThreshold)
                         confidences ==
                             [k \in 1..Len(cand) |-> CellConfidence(outputs[cand[k]])]
                     IN  \E order \in ArgsortDesc(confidences) :
                            entryCall' =
                                [service |-> "yolo", missing |-> FALSE,
                                 outcome |-> "detections",
                                 value |-> Postprocess(outputs, orig_shape, cand, order,
                                                       DefaultIouThresh).detections]
    /\ UNCHANGED <<yoloVars, wdVars, whisperVars, decodeVars, patchVars, faceVars, cacheVars, serverVars, moreVars>>

\* FaceService.detect_faces
FaceDetectFaces ==
    /\ \E file_exists \in BOOLEAN :
          IF SessionFor(sessions, "face", file_exists) = "FileNotFoundError"
          THEN /\ entryCall' = [service |-> "face", missing |-> TRUE,
                                outcome |-> "detections", value |-> <<>>]
               /\ UNCHANGED <<sessions, anchorsCache>>
          ELSE /\ sessions' = sessions \cup {"face"}
               /\ anchorsCache' = GetAnchors(anchorsCache)
               /\ \E tensor \in EntryFaceTensors :
                     \E perm \in ArgsortDesc(FaceScores(tensor, DefaultConfThreshold)) :
                        entryCall' =
                            [service |-> "face", missing |-> FALSE,
                             outcome |-> "detections",
                             value |-> DetectFaces(tensor, GetAnchors(anchorsCache),
                                                   DefaultConfThreshold, perm).detections]
    /\ UNCHANGED <<yoloVars, wdVars, whisperVars, decodeVars, patchVars, faceTensor,
                   faceResult, facePhase, cacheVars, serverVars, moreVars>>

\* WhisperService.transcribe
WhisperTranscribe ==
    /\ \E file_exists \in BOOLEAN :
          IF SessionFor(sessions, "whisper", file_exists) = "FileNotFoundError"
          THEN /\ entryCall' = [service |-> "whisper", missing |-> TRUE,
                                outcome |-> "text", value |-> ModelNotAvailable]
               /\ UNCHANGED sessions
          ELSE /\ sessions' = sessions \cup {"whisper"}
               /\ \E ids \in EntryTokenLists :
                     entryCall' = [service |-> "whisper", missing |-> FALSE,
                                   outcome |-> "text", value |-> TranscriptionText(ids)]
    /\ UNCHANGED <<yoloVars, wdVars, whisperVars, decodeVars, patchVars, faceVars, cacheVars, serverVars, moreVars>>

----------------------------------------------------------------------------
(* The process-wide caches.  _get_mel_fb runs in the threads of the        *)
(* default executor (handle_audio_analyze hands classify_from_base64 to    *)
(* run_in_executor), so its steps interleave; FaceService._get_anchors is  *)
(* called from the coroutines of the face routes, which do not await       *)
(* inside it.                                                              *)

Workers == 1..NumWorkers

\* what no step of a cache getter touches
cacheRest ==
    <<yoloVars, wdVars, whisperVars, decodeVars, patchVars, faceTensor, faceResult,
      facePhase, entryVars, serverVars, moreVars>>

\* bin_points of _build_mel_filterbank(64, 512, 16000, 125.0, 7500.0):
\* floor(513 * hz / 16000) at the 66 points evenly spaced in mel
MelBinPoints ==
    <<4, 4, 5, 6, 8, 9, 10, 11, 12, 13, 15, 16, 17, 19, 20, 22, 24, 25, 27, 29, 31, 33,
      35, 37, 39, 41, 43, 46, 48, 51, 53, 56, 59, 62, 65, 68, 71, 75, 78, 82, 86, 90, 94,
      98, 102, 107, 111, 116, 121, 126, 132, 137, 143, 149, 155, 162, 168, 175, 182, 190,
      197, 205, 214, 222, 231, 240>>

\* the filterbank: row i is the triangle <<left, center, right>> over the
\* nfft // 2 + 1 frequency bins, which fixes its weights
BuildMelFilterbank(num_mels, nfft) ==
    [i \in 1..num_mels |->
        [left |-> MelBinPoints[i], center |-> MelBinPoints[i + 1],
         right |-> MelBinPoints[i + 2], n_freqs |-> nfft \div 2 + 1]]

\* a thread enters _get_mel_fb
MelCall(t) ==
    /\ melPc[t] = "idle"
    /\ melCalls < MaxCacheCalls
    /\ melCalls' = melCalls + 1
    /\ melPc' = [melPc EXCEPT ![t] = "check"]
    /\ UNCHANGED <<melFbCache, melBuilt, melReturned, melBuilds, anchorsReturned, anchorsCache,
                   cacheRest>>

\* if _mel_fb is None
MelCheck(t) ==
    /\ melPc[t] = "check"
    /\ melPc' = [melPc EXCEPT ![t] = IF melFbCache = NoTable THEN "build" ELSE "return"]
    /\ UNCHANGED <<melFbCache, melBuilt, melReturned, melBuilds, melCalls, anchorsReturned, anchorsCache,
                   cacheRest>>

\* _build_mel_filterbank(MEL_BANDS, STFT_NFFT, SAMPLE_RATE, MEL_FMIN, MEL_FMAX)
MelBuild(t) ==
    /\ melPc[t] = "build"
    /\ melBuilt' = [melBuilt EXCEPT ![t] = BuildMelFilterbank(MEL_BANDS, STFT_NFFT)]
    /\ melBuilds' = melBuilds + 1
    /\ melPc' = [melPc EXCEPT ![t] = "store"]
    /\ UNCHANGED <<melFbCache, melReturned, melCalls, anchorsReturned, anchorsCache,
                   cacheRest>>

\* _mel_fb = <the filterbank built>
MelStore(t) ==
    /\ melPc[t] = "store"
    /\ melFbCache' = melBuilt[t]
    /\ melPc' = [melPc EXCEPT ![t] = "return"]
    /\ UNCHANGED <<melBuilt, melReturned, melBuilds, melCalls, anchorsReturned, anchorsCache,
                   cacheRest>>

\* return _mel_fb
MelReturn(t) ==
    /\ melPc[t] = "return"
    /\ melReturned' = [melReturned EXCEPT ![t] = melFbCache]
    /\ melPc' = [melPc EXCEPT ![t] = "idle"]
    /\ UNCHANGED <<melFbCache, melBuilt, melBuilds, melCalls, anchorsReturned, anchorsCache,
                   cacheRest>>

\* a call of FaceService._get_anchors
AnchorsCall ==
    /\ anchorsCache' = GetAnchors(anchorsCache)
    /\ anchorsReturned' = GetAnchors(anchorsCache)
    /\ UNCHANGED <<melFbCache, melPc, melBuilt, melReturned, melBuilds, melCalls,
                   cacheRest>>

----------------------------------------------------------------------------
(* main.handle_detect.  Every WebSocket client has its own coroutine; a    *)
(* handler runs on the event loop up to its await, the detection runs in a *)
(* thread of the default executor, and the handler resumes to send the     *)
(* result.  The Watchdog is the one object _get_watchdog returns.          *)

Clients == 1..NumClients

\* a frame stands for the image of a message: what session.run returns for it
\* on a standard model and on a QNN model; image is FALSE for an empty payload
Frame(cells) ==
    [image |-> TRUE, raw |-> SubTensor(WdGrid, cells), qnn |-> SubTensor(WdQnnGrid, cells)]
NoImage == [image |-> FALSE, raw |-> <<>>, qnn |-> <<>>]
ServerFrames == {NoImage, Frame({1, 2}), Frame({2, 4})}
ServerConfidences == {WatchdogDefaultConfidence, 85000}

NothingSent ==
    [sent |-> FALSE, conf |-> WatchdogDefaultConfidence, frame |-> NoImage,
     detections |-> <<>>, error |-> FALSE]

\* Watchdog.detect on what session.run returned for the frame
WatchdogDetect(frame, qnn_format, confidence) ==
    IF qnn_format THEN PostprocessQnn(frame.qnn, confidence)
    ELSE PostprocessRaw(frame.raw, confidence)

\* handle_detect from the message to the await: the empty payload and the
\* unloaded model are answered at once, otherwise the payload's confidence
\* is stored in the Watchdog and the detection is handed to the executor
HandleDetect(c) ==
    /\ reqPc[c] = "idle"
    /\ wdPhase # "none"
    /\ \E conf \in ServerConfidences, frame \in ServerFrames :
          IF ~frame.image \/ ~wdLoaded
          THEN /\ reqSent' = [reqSent EXCEPT ![c] =
                                 [sent |-> TRUE, conf |-> conf, frame |-> frame,
                                  detections |-> <<>>, error |-> frame.image]]
               /\ UNCHANGED <<reqPc, reqPayload, wdConfidence>>
          ELSE /\ wdConfidence' = conf
               /\ reqPayload' = [reqPayload EXCEPT ![c] = [conf |-> conf, frame |-> frame]]
               /\ reqPc' = [reqPc EXCEPT ![c] = "running"]
               /\ UNCHANGED reqSent
    /\ UNCHANGED <<reqResult, wdLoaded, wdQnnFormat, wdRaw, wdQnn, wdDetections, wdConfUsed,
                   wdPhase, yoloVars, whisperVars, decodeVars, patchVars, faceVars,
                   entryVars, cacheVars, moreVars>>

\* the executor thread: detect_from_base64, which reads self.confidence when
\* it post-processes
ExecutorDetect(c) ==
    /\ reqPc[c] = "running"
    /\ LET frame == reqPayload[c].frame
           detections == WatchdogDetect(frame, wdQnnFormat, wdConfidence)
       IN  /\ reqResult' = [reqResult EXCEPT ![c] = detections]
           /\ wdDetections' = detections
           /\ wdRaw' = IF wdQnnFormat THEN wdRaw ELSE frame.raw
           /\ wdQnn' = IF wdQnnFormat THEN frame.qnn ELSE wdQnn
    /\ wdConfUsed' = wdConfidence
    /\ wdPhase' = IF wdQnnFormat THEN "qnn" ELSE "raw"
    /\ reqPc' = [reqPc EXCEPT ![c] = "ran"]
    /\ UNCHANGED <<reqPayload, reqSent, wdLoaded, wdQnnFormat, wdConfidence, yoloVars,
                   whisperVars, decodeVars, patchVars, faceVars, entryVars, cacheVars, moreVars>>

\* handle_detect after the await: manager.send(cid, "detection_result", ...)
SendResult(c) ==
    /\ reqPc[c] = "ran"
    /\ reqSent' = [reqSent EXCEPT ![c] =
                      [sent |-> TRUE, conf |-> reqPayload[c].conf,
                       frame |-> reqPayload[c].frame, detections |-> reqResult[c],
                       error |-> FALSE]]
    /\ reqPc' = [reqPc EXCEPT ![c] = "idle"]
    /\ UNCHANGED <<reqPayload, reqResult, wdVars, yoloVars, whisperVars, decodeVars,
                   patchVars, faceVars, entryVars, cacheVars, moreVars>>

----------------------------------------------------------------------------
(* AudioDetector.classify, audiodetector.py.  avg_probs is the mean of the *)
(* softmax rows of the patches: one probability per class, in 1/ScoreUnit, *)
(* that add up to 1.  A returned dict is [idx, confidence]; its label is   *)
(* labels[idx].                                                            *)

\* np.argsort(avg_probs)[::-1][:top_n], top_n >= 0
TopIndices(order, top_n) == SubSeq(order, 1, Min2(top_n, Len(order)))

\* variant of TakeAbove: the loop never breaks
RECURSIVE TakeAll(_, _, _)
TakeAll(avg_probs, top_indices, confidence) ==
    IF Len(top_indices) = 0 THEN <<>>
    ELSE <<[idx |-> Head(top_indices) - 1,
            confidence |-> RoundTo(avg_probs[Head(top_indices)], 10)]>>
             \o TakeAll(avg_probs, Tail(top_indices), confidence)

\* for idx in top_indices: if conf < self.confidence: break;
\* results.append({"label": label, "confidence": round(conf, 4)})
RECURSIVE TakeAbove(_, _, _)
TakeAbove(avg_probs, top_indices, confidence) ==
    IF Len(top_indices) = 0 THEN <<>>
    ELSE IF avg_probs[Head(top_indices)] < confidence THEN <<>>
    ELSE <<[idx |-> Head(top_indices) - 1,
            confidence |-> RoundTo(avg_probs[Head(top_indices)], 10)]>>
             \o TakeAbove(avg_probs, Tail(top_indices), confidence)

\* classify after the patches have been run; order is what
\* np.argsort(avg_probs)[::-1] returned
Classify(loaded, avg_probs, order, top_n, confidence) ==
    IF ~loaded THEN <<>>
    ELSE TakeAbove(avg_probs, TopIndices(order, top_n), confidence)

(* Inputs of the classifier: distributions over four classes with ties,    *)
(* with a class at exactly 0.15, and with classes just above a threshold   *)
(* that is not a multiple of 1e-4.                                         *)
ClassProbs ==
    {<<12343, 50000, 37657, 0>>, <<15000, 15000, 70000, 0>>, <<5000, 5000, 90000, 0>>,
     <<25000, 25000, 25000, 25000>>, <<100000, 0, 0, 0>>, <<14999, 12342, 60000, 12659>>}
ClassifyConfidences == {AudioDefaultConfidence, 12342, 95000}
TopNs == (0..MaxTopN) \cup {DefaultTopN}

\* main._get_audio_detector: AudioDetector(model_path, labels_path,
\* confidence=0.15, use_cpu=True); _load_model sets _loaded
AdConstruct ==
    /\ adPhase = "none"
    /\ \E loaded \in BOOLEAN : adLoaded' = loaded
    /\ adConfidence' = AudioDefaultConfidence
    /\ adPhase' = "idle"
    /\ UNCHANGED <<adProbs, adTopN, adConfUsed, adResults, managerVars, yoloVars, wdVars,
                   whisperVars, decodeVars, patchVars, faceVars, entryVars, cacheVars,
                   serverVars>>

\* main.handle_audio_analyze: detector.confidence = conf
AdSetConfidence ==
    /\ adPhase # "none"
    /\ \E conf \in ClassifyConfidences : adConfidence' = conf
    /\ UNCHANGED <<adLoaded, adProbs, adTopN, adConfUsed, adResults, adPhase, managerVars,
                   yoloVars, wdVars, whisperVars, decodeVars, patchVars, faceVars, entryVars,
                   cacheVars, serverVars>>

\* AudioDetector.classify(pcm, top_n)
AdClassify ==
    /\ adPhase # "none"
    /\ \E avg_probs \in ClassProbs, top_n \in TopNs :
          \E order \in ArgsortDesc(avg_probs) :
             /\ adProbs' = avg_probs
             /\ adTopN' = top_n
             /\ adResults' = Classify(adLoaded, avg_probs, order, top_n, adConfidence)
    /\ adConfUsed' = adConfidence
    /\ adPhase' = "done"
    /\ UNCHANGED <<adLoaded, adConfidence, managerVars, yoloVars, wdVars, whisperVars,
                   decodeVars, patchVars, faceVars, entryVars, cacheVars, serverVars>>

----------------------------------------------------------------------------
(* OnnxRuntimeManager, onnx_runtime_manager.py.  Objects are numbered in   *)
(* the order they are created; 0 stands for None and for a missing key.    *)

ModelNames == {"yolov8n.onnx", "face_detection.onnx"}

NoSessions == [name \in ModelNames |-> 0]

\* variant of InitSessions: __init__ always starts from an empty dict
InitSessionsAlways(has_sessions, cached) == NoSessions

\* __init__: if not hasattr(self, "_sessions"): self._sessions = {}
InitSessions(has_sessions, cached) == IF has_sessions THEN cached ELSE NoSessions

NoCall == [op |-> "none", name |-> "", outcome |-> "none", result |-> 0]

\* OnnxRuntimeManager(): __new__, then __init__ on what it returned
MgrConstruct ==
    /\ mgrCalls < MaxManagerCalls
    /\ mgrCalls' = mgrCalls + 1
    /\ IF mgrInstance = 0
       THEN /\ mgrInstance' = mgrObjects + 1
            /\ mgrObjects' = mgrObjects + 1
            /\ mgrSessions' = InitSessions(TRUE, NoSessions)
            /\ mgrInitialized' = FALSE
       ELSE /\ mgrSessions' = InitSessions(TRUE, mgrSessions)
            /\ UNCHANGED <<mgrInstance, mgrObjects, mgrInitialized>>
    /\ mgrLast' = [op |-> "construct", name |-> "", outcome |-> "returned",
                   result |-> mgrInstance']
    /\ UNCHANGED <<mgrLoads, classifyVars, yoloVars, wdVars, whisperVars, decodeVars,
                   patchVars, faceVars, entryVars, cacheVars, serverVars>>

\* initialize()
MgrInitialize ==
    /\ mgrInstance # 0
    /\ mgrCalls < MaxManagerCalls
    /\ mgrCalls' = mgrCalls + 1
    /\ mgrInitialized' = TRUE
    /\ mgrLast' = [op |-> "initialize", name |-> "", outcome |-> "returned", result |-> 0]
    /\ UNCHANGED <<mgrInstance, mgrSessions, mgrObjects, mgrLoads, classifyVars, yoloVars,
                   wdVars, whisperVars, decodeVars, patchVars, faceVars, entryVars, cacheVars,
                   serverVars>>

\* shutdown()
MgrShutdown ==
    /\ mgrInstance # 0
    /\ mgrCalls < MaxManagerCalls
    /\ mgrCalls' = mgrCalls + 1
    /\ mgrSessions' = NoSessions
    /\ mgrInitialized' = FALSE
    /\ mgrLoads' = [name \in ModelNames |-> 0]
    /\ mgrLast' = [op |-> "shutdown", name |-> "", outcome |-> "returned", result |-> 0]
    /\ UNCHANGED <<mgrInstance, mgrObjects, classifyVars, yoloVars, wdVars, whisperVars,
                   decodeVars, patchVars, faceVars, entryVars, cacheVars, serverVars>>

\* get_session(model_name) with onnxruntime installed: the cached session, or
\* FileNotFoundError, or a new InferenceSession (whose construction may raise
\* with the QNN providers and again with the CPU provider)
MgrGetSession(model_name) ==
    /\ mgrInstance # 0
    /\ mgrCalls < MaxManagerCalls
    /\ mgrCalls' = mgrCalls + 1
    /\ IF mgrSessions[model_name] # 0
       THEN /\ mgrLast' = [op |-> "get_session", name |-> model_name, outcome |-> "cached",
                           result |-> mgrSessions[model_name]]
            /\ UNCHANGED <<mgrSessions, mgrObjects, mgrLoads>>
       ELSE \E file_exists \in BOOLEAN, loadable \in BOOLEAN :
               IF ~file_exists
               THEN /\ mgrLast' = [op |-> "get_session", name |-> model_name,
                                   outcome |-> "FileNotFoundError", result |-> 0]
                    /\ UNCHANGED <<mgrSessions, mgrObjects, mgrLoads>>
               ELSE IF ~loadable
               THEN /\ mgrLast' = [op |-> "get_session", name |-> model_name,
                                   outcome |-> "Exception", result |-> 0]
                    /\ UNCHANGED <<mgrSessions, mgrObjects, mgrLoads>>
               ELSE /\ mgrObjects' = mgrObjects + 1
                    /\ mgrSessions' = [mgrSessions EXCEPT ![model_name] = mgrObjects + 1]
                    /\ mgrLoads' = [mgrLoads EXCEPT ![model_name] = @ + 1]
                    /\ mgrLast' = [op |-> "get_session", name |-> model_name,
                                   outcome |-> "loaded", result |-> mgrObjects + 1]
    /\ UNCHANGED <<mgrInstance, mgrInitialized, classifyVars, yoloVars, wdVars, whisperVars,
                   decodeVars, patchVars, faceVars, entryVars, cacheVars, serverVars>>

----------------------------------------------------------------------------
Init ==
    /\ argsortMemo = {}
    /\ yoloOutputs = <<>>
    /\ yoloShape = <<1, 1>>
    /\ yoloPhase = "idle"
    /\ yoloCalls = {}
    /\ wdLoaded = FALSE
    /\ wdQnnFormat = FALSE
    /\ wdConfidence = WatchdogDefaultConfidence
    /\ wdRaw = <<>>
    /\ wdQnn = <<>>
    /\ wdDetections = <<>>
    /\ wdConfUsed = WatchdogDefaultConfidence
    /\ wdPhase = "none"
    /\ audioLen = 0
    /\ melShape = <<>>
    /\ melPhase = "idle"
    /\ audioKind = SilentKind
    /\ melValues = {}
    /\ tokenIds = <<>>
    /\ transcription = <<>>
    /\ sttPhase = "idle"
    /\ gdTokens = <<>>
    /\ gdChars = <<>>
    /\ gdText = <<>>
    /\ gdPhase = "idle"
    /\ pcmLen = 0
    /\ melFrames = 0
    /\ patches = <<>>
    /\ patchPhase = "idle"
    /\ pcmKind = SilentKind
    /\ patchValues = {}
    /\ anchorsCache = NoTable
    /\ faceTensor = [n |-> 0, channels |-> 0, active |-> {}]
    /\ faceResult = [status |-> "none", detections |-> <<>>]
    /\ facePhase = "idle"
    /\ sessions = {}
    /\ anchorsReturned = NoTable
    /\ melFbCache = NoTable
    /\ melPc = [t \in Workers |-> "idle"]
    /\ melBuilt = [t \in Workers |-> NoTable]
    /\ melReturned = [t \in Workers |-> NoTable]
    /\ melBuilds = 0
    /\ melCalls = 0
    /\ reqPc = [c \in Clients |-> "idle"]
    /\ reqPayload = [c \in Clients |-> [conf |-> WatchdogDefaultConfidence, frame |-> NoImage]]
    /\ reqResult = [c \in Clients |-> <<>>]
    /\ reqSent = [c \in Clients |-> NothingSent]
    /\ entryCall = [service |-> "none", missing |-> FALSE, outcome |-> "none",
                    value |-> <<>>]
    /\ adLoaded = FALSE
    /\ adConfidence = AudioDefaultConfidence
    /\ adProbs = <<>>
    /\ adTopN = DefaultTopN
    /\ adConfUsed = AudioDefaultConfidence
    /\ adResults = <<>>
    /\ adPhase = "none"
    /\ mgrInstance = 0
    /\ mgrSessions = NoSessions
    /\ mgrInitialized = FALSE
    /\ mgrObjects = 0
    /\ mgrLoads = [name \in ModelNames |-> 0]
    /\ mgrCalls = 0
    /\ mgrLast = NoCall

NextYolo == YoloRun \/ YoloPostprocess
SpecYolo == Init /\ [][NextYolo]_vars

NextWatchdog ==
    WdConstruct \/ WdSetConfidence \/ WdDetectUnloaded \/ WdDetectRaw \/ WdDetectQnn
SpecWatchdog == Init /\ [][NextWatchdog]_vars

NextMel == ComputeLogMel
SpecMel == Init /\ [][NextMel]_vars

NextTranscribe == Transcribe
SpecTranscribe == Init /\ [][NextTranscribe]_vars

NextDecode == GreedyDecode
SpecDecode == Init /\ [][NextDecode]_vars

NextPatches == AudioPreprocess
SpecPatches == Init /\ [][NextPatches]_vars

NextFace == FaceDetect
SpecFace == Init /\ [][NextFace]_vars

NextCache ==
    \/ \E t \in Workers :
          MelCall(t) \/ MelCheck(t) \/ MelBuild(t) \/ MelStore(t) \/ MelReturn(t)
    \/ AnchorsCall
SpecCache == Init /\ [][NextCache]_vars

NextServer ==
    \/ WdConstruct
    \/ \E c \in Clients : HandleDetect(c) \/ ExecutorDetect(c) \/ SendResult(c)
SpecServer == Init /\ [][NextServer]_vars

NextEntry == YoloDetect \/ FaceDetectFaces \/ WhisperTranscribe
SpecEntry == Init /\ [][NextEntry]_vars

NextClassify == AdConstruct \/ AdSetConfidence \/ AdClassify
SpecClassify == Init /\ [][NextClassify]_vars

NextManager ==
    \/ MgrConstruct \/ MgrInitialize \/ MgrShutdown
    \/ \E model_name \in ModelNames : MgrGetSession(model_name)
SpecManager == Init /\ [][NextManager]_vars

NextSilence == ComputeLogMelEdge \/ AudioPreprocessEdge
SpecSilence == Init /\ [][NextSilence]_vars

NextCrowd ==
    \/ YoloRunCrowd \/ YoloPostprocess
    \/ WdConstruct \/ WdDetectRawCrowd \/ WdDetectQnnCrowd
SpecCrowd == Init /\ [][NextCrowd]_vars

\* the three decoders on inputs whose rows are not in confidence order
NextOrder ==
    \/ YoloRunOrder \/ YoloPostprocess
    \/ WdConstruct \/ WdSetConfidence \/ WdDetectRawOrder \/ WdDetectQnnOrder
    \/ FaceDetectChain
SpecOrder == Init /\ [][NextOrder]_vars

----------------------------------------------------------------------------
(* Properties of YOLOService.postprocess and _nms_numpy, under SpecYolo *)

\* the corner box of the k-th candidate of call c, and of its p-th kept one
CandBox(c, k) == CornerBox(yoloOutputs[c.cand[k]])

\* IoU of a and b is above thr/IouUnit (intersection / union, 0 when the union is not positive)
IouExceeds(a, b, thr) ==
    /\ BoxUnion(a, b) > 0
    /\ BoxIntersection(a, b) * IouUnit > thr * BoxUnion(a, b)

BoxOrderedInUnit(b) ==
    /\ 0 <= b[1] /\ b[1] <= b[3] /\ b[3] <= ScoreUnit
    /\ 0 <= b[2] /\ b[2] <= b[4] /\ b[4] <= ScoreUnit

\* C1: every Detection returned by postprocess has a bbox with
\* 0 <= x1 <= x2 <= 1 and 0 <= y1 <= y2 <= 1, whatever the raw tensor
\* (non-positive w or h included), the image size and the thresholds.
C1_BboxOrderedInUnit ==
    \A c \in yoloCalls :
        \A k \in 1..Len(c.detections) : BoxOrderedInUnit(c.detections[k].bbox)

\* C2: on one tensor and one IoU threshold, postprocess with the higher
\* confidence threshold returns no more detections than with the lower one.
C2_CountMonotoneInConf ==
    \A c1, c2 \in yoloCalls :
        (c1.iou = c2.iou /\ c1.conf < c2.conf)
            => Len(c2.detections) <= Len(c1.detections)

\* C3 as stated: on one candidate pool, the indices kept by _nms_numpy at the
\* higher IoU threshold are a superset of those kept at the lower one.
C3_KeptSupersetInIou ==
    \A c1, c2 \in yoloCalls :
        (c1.conf = c2.conf /\ c1.iou < c2.iou) => Range(c1.keep) \subseteq Range(c2.keep)

\* position of candidate i in the order the pool was visited in
Rank(order, i) == CHOOSE r \in DOMAIN order : order[r] = i

\* C3 as amended: on one candidate pool and i1 < i2, an index kept at i1 is
\* kept at i2 too unless an index ranked before it, kept at i2 and not at
\* i1, overlaps it with IoU above i2; the top-ranked index is kept at both.
C3_KeptOrDisplaced ==
    \A c1, c2 \in yoloCalls :
        (c1.conf = c2.conf /\ c1.iou < c2.iou /\ Len(c1.cand) > 0) =>
            /\ c1.order = c2.order
            /\ c1.keep[1] = c1.order[1] /\ c2.keep[1] = c1.order[1]
            /\ \A j \in Range(c1.keep) \ Range(c2.keep) :
                  \E i \in Range(c2.keep) \ Range(c1.keep) :
                      /\ Rank(c1.order, i) < Rank(c1.order, j)
                      /\ IouExceeds(CandBox(c1, i), CandBox(c1, j), c2.iou)

\* C3 witness: a pool of three, kept {1st, 3rd} at the lower threshold and
\* {1st, 2nd} at the higher one
C3_Witness ==
    \E c1, c2 \in yoloCalls :
        /\ c1.conf = c2.conf /\ c1.iou < c2.iou
        /\ Len(c1.cand) >= 3
        /\ Range(c1.keep) \ Range(c2.keep) # {}
        /\ Range(c2.keep) \ Range(c1.keep) # {}

----------------------------------------------------------------------------
(* Properties of the Watchdog decoders, under SpecWatchdog *)

BoxInUnit(b) == \A k \in 1..4 : 0 <= b[k] /\ b[k] <= ScoreUnit

\* C5: _postprocess_raw applies greedy NMS: two above-threshold cells whose
\* boxes overlap with IoU above the suppression threshold (0.45) are never
\* both among the detections Watchdog.detect returns.
C5_WatchdogSuppressesOverlaps ==
    wdPhase = "raw" =>
        \A p, q \in 1..Len(wdRaw) :
            (/\ p # q
             /\ CellConfidence(wdRaw[p]) > wdConfUsed
             /\ CellConfidence(wdRaw[q]) > wdConfUsed
             /\ IouExceeds(CornerBox(wdRaw[p]), CornerBox(wdRaw[q]), DefaultIouThresh))
            => ~(/\ WdRawDetection(wdRaw[p]) \in Range(wdDetections)
                 /\ WdRawDetection(wdRaw[q]) \in Range(wdDetections))

\* C6: every bbox coordinate returned by _postprocess_raw and _postprocess_qnn
\* lies in [0, 1]: boxes reaching past the model input frame are clamped.
C6_WatchdogBboxInUnit ==
    wdPhase \in {"raw", "qnn"} =>
        \A k \in 1..Len(wdDetections) : BoxInUnit(wdDetections[k].bbox)

\* the rows of a tensor whose confidence is not strictly below the threshold
AtLeast(confidences, threshold) == {i \in DOMAIN confidences : confidences[i] >= threshold}

\* C7: in every decoder a cell is dropped by the confidence filter if and only
\* if its confidence is strictly less than the threshold; a cell whose
\* confidence equals the threshold remains a candidate.  (Stated for
\* YOLOService.postprocess, Watchdog._postprocess_raw and _postprocess_qnn.)
C7_DroppedIffBelowThreshold ==
    /\ \A c \in yoloCalls :
          Range(c.cand) =
              AtLeast([i \in DOMAIN yoloOutputs |-> CellConfidence(yoloOutputs[i])], c.conf)
    /\ wdPhase = "raw" =>
          Len(wdDetections) =
              Min2(WatchdogMaxDetections,
                   Cardinality(AtLeast([i \in DOMAIN wdRaw |-> CellConfidence(wdRaw[i])],
                                       wdConfUsed)))
    /\ wdPhase = "qnn" =>
          Len(wdDetections) =
              Min2(WatchdogMaxDetections,
                   Cardinality(AtLeast([i \in DOMAIN wdQnn |-> wdQnn[i].score], wdConfUsed)))

----------------------------------------------------------------------------
(* Properties of the Whisper front end and token decoder.                  *)

\* C8: for every input audio length the spectrogram has exactly 80 mel bands
\* and exactly 3000 time frames.
C8_MelShapeIs80x3000 ==
    melPhase = "done" => melShape = <<1, 80, 3000>>

Hello == <<72, 101, 108, 108, 111>>

\* C9 as stated: [72, 101, 108, 108, 111, EOS, 999] decodes to "Hello", and a
\* token id in the printable ASCII range decodes to the character with that
\* code point.
C9_HelloFromCodePoints ==
    sttPhase = "done" =>
        /\ tokenIds = HelloAsBytes => transcription = Hello
        /\ \A t \in 33..126 : tokenIds = <<t>> => transcription = <<t>>

\* C9: token ids below 256 index the GPT-2 byte order, so token id t in 0..93
\* decodes to the character with code point t + 33; [39, 68, 75, 75, 78, EOS,
\* 999] decodes to "Hello", and [72, 101, 108, 108, 111, EOS, 999] decodes to
\* "i" followed by four U+FFFD replacement characters.
C9_HelloFromByteOrder ==
    sttPhase = "done" =>
        /\ tokenIds = HelloAsTokens => transcription = Hello
        /\ tokenIds = HelloAsBytes =>
              transcription = <<105, ReplacementChar, ReplacementChar,
                                ReplacementChar, ReplacementChar>>
        /\ \A t \in 0..93 : tokenIds = <<t>> => transcription = <<t + 33>>

C9_Witness ==
    /\ sttPhase = "done"
    /\ tokenIds = HelloAsBytes
    /\ Len(transcription) = 5
    /\ transcription # Hello

\* the longest prefix of ids that holds no EOS id
PrefixBeforeEos(ids) ==
    SubSeq(ids, 1,
           CHOOSE k \in 0..Len(ids) :
               /\ \A j \in 1..k : ids[j] # 50256
               /\ k < Len(ids) => ids[k + 1] = 50256)

\* C10: two consecutive transcriptions whose token sequences agree up to their
\* first EOS (50256) return the same text, and a sequence without EOS is
\* decoded whole.
C10_TextDependsOnPrefixBeforeEos ==
    /\ [][(/\ sttPhase = "done"
           /\ sttPhase' = "done"
           /\ PrefixBeforeEos(tokenIds) = PrefixBeforeEos(tokenIds'))
          => transcription' = transcription]_vars
    /\ [](sttPhase = "done" /\ 50256 \notin Range(tokenIds)
            => \/ transcription = GreedyDecodeTokens(tokenIds)
               \/ /\ Len(GreedyDecodeTokens(tokenIds)) = 0
                  /\ transcription = EmptyTranscription)

C10_Witness ==
    /\ sttPhase = "done"
    /\ tokenIds = <<39, 50256, 39>>
    /\ transcription = <<72>>

----------------------------------------------------------------------------
(* Properties of _greedy_decode_tokens, under SpecDecode *)

\* the byte table written out: '!'..'~' for ids 0..93, the bytes 0..32 for ids
\* 188..220, DEL for id 221, and U+FFFD for every id whose byte is above 127
ByteTableChar(t) ==
    IF t <= 93 THEN t + 33
    ELSE IF t <= 187 THEN 65533
    ELSE IF t <= 220 THEN t - 188
    ELSE IF t = 221 THEN 127
    ELSE 65533

\* what a token id of 0 or more contributes to chars
Contribution(t) ==
    IF t >= 50257 THEN <<>>
    ELSE IF t <= 255 THEN <<ByteTableChar(t)>>
    ELSE <<32>>

RECURSIVE Contributions(_)
Contributions(ids) ==
    IF Len(ids) = 0 THEN <<>> ELSE Contribution(Head(ids)) \o Contributions(Tail(ids))

Whitespace == {9, 10, 11, 12, 13, 28, 29, 30, 31, 32, 133, 160, 5760}
                  \cup (8192..8202) \cup {8232, 8233, 8239, 8287, 12288}

\* C12: the returned string has no leading or trailing whitespace, every
\* whitespace character in it is a single space between two other characters,
\* and normalising it again leaves it unchanged.
C12_WhitespaceNormalised ==
    gdPhase = "done" =>
        /\ \A i \in 1..Len(gdText) :
              gdText[i] \in Whitespace =>
                  /\ gdText[i] = 32
                  /\ 1 < i /\ i < Len(gdText)
                  /\ gdText[i - 1] \notin Whitespace
                  /\ gdText[i + 1] \notin Whitespace
        /\ Strip(SplitJoin(gdText, <<>>, FALSE)) = gdText

C12_Witness ==
    /\ gdPhase = "done"
    /\ gdTokens = SpacedTokens
    /\ gdText = <<72, 32, 101>>

----------------------------------------------------------------------------
(* Properties of AudioDetector._preprocess, under SpecPatches *)

\* C13: _preprocess returns at least one patch, every patch is 96 rows of 64
\* bands, and a spectrogram of n < 96 frames gives exactly one patch whose
\* first n rows are the spectrogram and whose other rows are zero; the empty
\* buffer included.
C13_NeverZeroPatches ==
    patchPhase = "done" =>
        /\ melFrames >= 1
        /\ Len(patches) >= 1
        /\ \A k \in 1..Len(patches) :
              /\ Len(patches[k]) = 96
              /\ \A i \in 1..Len(patches[k]) : patches[k][i].bands = 64
        /\ melFrames < 96 =>
              /\ Len(patches) = 1
              /\ \A i \in 1..Len(patches[1]) :
                    patches[1][i].frame = (IF i <= melFrames THEN i ELSE 0)

C13_Witness ==
    /\ patchPhase = "done"
    /\ pcmLen = 0
    /\ melFrames = 1
    /\ Len(patches) = 1
    /\ patches[1][1].frame = 1
    /\ patches[1][96].frame = 0

----------------------------------------------------------------------------
(* Properties of FaceService.detect_faces and its anchors, under SpecFace *)

NothingReachesThreshold(tensor) ==
    \A r \in tensor.active : Sigmoid(r.logit) < DefaultConfThreshold

\* C14: when no cell or anchor reaches the confidence threshold,
\* YOLOService.postprocess and FaceService.detect_faces return an empty list
\* and raise no error, for every input tensor.
C14_EmptyListWhenNothingPasses ==
    /\ \A c \in yoloCalls : Len(c.cand) = 0 => c.detections = <<>>
    /\ (facePhase = "done" /\ NothingReachesThreshold(faceTensor))
          => faceResult = [status |-> "ok", detections |-> <<>>]

\* C16: a face tensor whose row count differs from the anchor count, or with
\* fewer than 16 channels, makes the decode fail with the one typed error
\* InvalidInput.
C16_ShapeMismatchIsInvalidInput ==
    (facePhase = "done" /\ (faceTensor.n # 640 \/ faceTensor.channels < 16))
        => faceResult.status = "InvalidInput"

\* the anchor at position k (from 1) of the table for input size 128: the
\* 16 x 16 grid of stride 8, then the 8 x 8 grid of stride 16, rows outermost,
\* two anchors per cell
LayoutAnchor(k) ==
    LET grid == IF k <= 512 THEN 16 ELSE 8
        cell == ((IF k <= 512 THEN k ELSE k - 512) - 1) \div 2
    IN  [cx |-> <<2 * (cell % grid) + 1, 2 * grid>>,
         cy |-> <<2 * (cell \div grid) + 1, 2 * grid>>]

\* the part of C17 about the table alone: order, count and range
C17_AnchorLayout ==
    facePhase = "done" =>
        /\ Len(anchorsCache) = 640
        /\ \A k \in 1..Len(anchorsCache) :
              /\ anchorsCache[k] = LayoutAnchor(k)
              /\ 0 < anchorsCache[k].cx[1] /\ anchorsCache[k].cx[1] < anchorsCache[k].cx[2]
              /\ 0 < anchorsCache[k].cy[1] /\ anchorsCache[k].cy[1] < anchorsCache[k].cy[2]

\* C17: _generate_anchors emits the anchors of stride 8 then stride 16, row by
\* row, two per cell, 640 for input size 128, every coordinate strictly
\* between 0 and 1, and the anchor count equals the number of rows N of the
\* detector's raw regressor tensor.
C17_AnchorsMatchTensorRows ==
    facePhase = "done" =>
        /\ Len(anchorsCache) = 640
        /\ \A k \in 1..Len(anchorsCache) : anchorsCache[k] = LayoutAnchor(k)
        /\ Len(anchorsCache) = faceTensor.n

----------------------------------------------------------------------------
(* Properties of the inference entry points, under SpecEntry *)

\* C15: when there is no session for the model and its file is missing,
\* YOLOService.detect, FaceService.detect_faces and WhisperService.transcribe
\* fail with ModelUnavailable; the call does not end with an empty list,
\* placeholder text or synthetic detections.
C15_MissingModelIsModelUnavailable ==
    entryCall.missing => entryCall.outcome = "ModelUnavailable"

----------------------------------------------------------------------------
(* Properties of the caches, under SpecCache *)

C19_BuilderRunsAtMostOnce ==
    melBuilds <= 1

----------------------------------------------------------------------------
(* Properties of main.handle_detect, under SpecServer *)

\* C20: the detections sent back for a 'detect' request are exactly those
\* filtered with the confidence value of that request's own payload, under
\* any interleaving of requests from different clients.
C20_FilteredWithOwnConfidence ==
    \A c \in Clients :
        (reqSent[c].sent /\ ~reqSent[c].error)
            => reqSent[c].detections =
                   WatchdogDetect(reqSent[c].frame, wdQnnFormat, reqSent[c].conf)

----------------------------------------------------------------------------
(* Properties of the order of candidates and detections *)

\* the confidence of the k-th candidate of call c
CandConfidence(c, k) == CellConfidence(yoloOutputs[c.cand[k]])

\* C21: candidates of exactly equal confidence are visited by _nms_numpy in
\* insertion order, the lower index first, so that of two equal-confidence
\* boxes overlapping above the threshold the earlier-indexed one is kept and
\* the later one is discarded.
C21_TiesInInsertionOrder ==
    \A c \in yoloCalls :
        /\ \A p, q \in 1..Len(c.order) :
              (p < q /\ CandConfidence(c, c.order[p]) = CandConfidence(c, c.order[q]))
                  => c.order[p] < c.order[q]
        /\ (/\ Len(c.cand) = 2
            /\ CandConfidence(c, 1) = CandConfidence(c, 2)
            /\ IouExceeds(CandBox(c, 1), CandBox(c, 2), c.iou))
               => c.keep = <<1>>

\* C22: the number of detections one decoder call returns is at most 20,
\* however many cells pass the confidence threshold and survive suppression,
\* for YOLOService.postprocess, _postprocess_raw and _postprocess_qnn.
C22_AtMostTwentyDetections ==
    /\ \A c \in yoloCalls : Len(c.detections) <= 20
    /\ wdPhase \in {"raw", "qnn"} => Len(wdDetections) <= 20

----------------------------------------------------------------------------
(* Properties of the FaceDetection records, under SpecFace *)

FaceBoxOrderedInUnit(b) ==
    /\ 0 <= b[1] /\ b[1] <= b[3] /\ b[3] <= FaceUnit
    /\ 0 <= b[2] /\ b[2] <= b[4] /\ b[4] <= FaceUnit

\* C23: every FaceDetection returned by detect_faces has exactly 6 landmark
\* pairs with every coordinate in [0, 1], a confidence of at least the
\* configured threshold and within [0, 1], and a bbox with
\* 0 <= x1 <= x2 <= 1 and 0 <= y1 <= y2 <= 1, whatever the raw tensors.
C23_FaceDetectionWellFormed ==
    (facePhase = "done" /\ faceResult.status = "ok") =>
        \A k \in 1..Len(faceResult.detections) :
            LET d == faceResult.detections[k]
            IN  /\ Len(d.landmarks) = 6
                /\ \A i \in 1..Len(d.landmarks) :
                      /\ Len(d.landmarks[i]) = 2
                      /\ \A j \in 1..2 :
                            0 <= d.landmarks[i][j] /\ d.landmarks[i][j] <= FaceUnit
                /\ d.confidence >= DefaultConfThreshold
                /\ d.confidence <= ScoreUnit
                /\ FaceBoxOrderedInUnit(d.bbox)

\* the parts of C23 that do not concern the order of the bbox corners
C23_LandmarksAndConfidence ==
    (facePhase = "done" /\ faceResult.status = "ok") =>
        \A k \in 1..Len(faceResult.detections) :
            LET d == faceResult.detections[k]
            IN  /\ Len(d.landmarks) = 6
                /\ \A i \in 1..Len(d.landmarks) :
                      \A j \in 1..2 :
                          0 <= d.landmarks[i][j] /\ d.landmarks[i][j] <= FaceUnit
                /\ d.confidence >= DefaultConfThreshold
                /\ d.confidence <= ScoreUnit
                /\ \A j \in 1..4 : 0 <= d.bbox[j] /\ d.bbox[j] <= FaceUnit

----------------------------------------------------------------------------
(* Properties of the spectrogram values, under SpecSilence *)

\* C24: for an all-zero audio buffer of any length every value of the
\* spectrogram of _compute_log_mel_spectrogram and of the batch of
\* AudioDetector._preprocess is finite, and all values of the speech
\* spectrogram are equal to one floor value.
C24_SilenceIsFiniteAndUniform ==
    /\ (melPhase = "done" /\ audioKind.silent) =>
          /\ \A x \in melValues : x.finite
          /\ Cardinality(melValues) = 1
    /\ (patchPhase = "done" /\ pcmKind.silent) =>
          /\ patchValues # {}
          /\ \A x \in patchValues : x.finite

\* silence of 1 s has been through both front ends: the speech spectrogram
\* holds -1.5 everywhere, the batch ln(0.001) in every row
C24_Witness ==
    /\ melPhase = "done" /\ audioKind.silent /\ audioLen = 16000
    /\ melValues = {Finite(-6)}
    /\ patchPhase = "done" /\ pcmKind.silent /\ pcmLen = 15600
    /\ patchValues = {Finite(-6907755)}

----------------------------------------------------------------------------
(* Properties of AudioDetector.classify, under SpecClassify *)

NonIncreasing(dets) ==
    \A k \in 1..(Len(dets) - 1) : dets[k].confidence >= dets[k + 1].confidence

NoClassReaches(avg_probs, confidence) ==
    \A i \in 1..Len(avg_probs) : avg_probs[i] < confidence

----------------------------------------------------------------------------
(* Properties of _nms_numpy as the greedy suppression, under SpecYolo *)

\* the kept candidates visited before candidate j
KeptBefore(c, j) == {i \in Range(c.keep) : Rank(c.order, i) < Rank(c.order, j)}

\* C26: _nms_numpy is the greedy suppression: the highest-confidence candidate
\* is kept, the kept candidates come in the order they were visited, and a
\* candidate is absent from the result exactly when its IoU with some kept
\* candidate visited before it is strictly above iou_threshold.
C26_GreedySuppression ==
    \A c \in yoloCalls :
        Len(c.cand) > 0 =>
            /\ c.keep[1] = c.order[1]
            /\ \A j \in 1..Len(c.cand) :
                  CandConfidence(c, j) <= CandConfidence(c, c.keep[1])
            /\ \A p, q \in 1..Len(c.keep) :
                  p < q => Rank(c.order, c.keep[p]) < Rank(c.order, c.keep[q])
            /\ \A j \in 1..Len(c.cand) :
                  j \notin Range(c.keep) <=>
                      \E i \in KeptBefore(c, j) :
                          IouExceeds(CandBox(c, i), CandBox(c, j), c.iou)

\* a pool of at least three in which the second candidate visited was
\* suppressed and a later one was kept
C26_Witness ==
    \E c \in yoloCalls :
        /\ Len(c.cand) >= 3
        /\ Len(c.keep) >= 2
        /\ c.order[2] \notin Range(c.keep)
        /\ c.keep[2] = c.order[3]

----------------------------------------------------------------------------
(* The face detector's suppression loop against _nms_numpy, under SpecFace *)

\* the face candidates as _nms_numpy takes them: boxes in the order of indices
FaceCandidateBoxes(tensor, anchors, threshold) ==
    LET indices == FaceIndices(tensor, threshold)
    IN  [k \in 1..Len(indices) |-> FaceBox(tensor, anchors, indices[k])]

PairwiseDistinct(scores) ==
    \A i, j \in 1..Len(scores) : i # j => scores[i] # scores[j]

\* C27: on a pool of candidates with pairwise distinct scores the face
\* detector's loop keeps the same indices in the same order as _nms_numpy
\* with iou_threshold = 0.3: the detections returned are those of the
\* indices _nms_numpy keeps.
C27_FaceLoopIsNmsNumpy ==
    (/\ facePhase = "done"
     /\ faceResult.status = "ok"
     /\ PairwiseDistinct(FaceScores(faceTensor, DefaultConfThreshold))) =>
        LET indices == FaceIndices(faceTensor, DefaultConfThreshold)
            scores == FaceScores(faceTensor, DefaultConfThreshold)
            boxes == FaceCandidateBoxes(faceTensor, anchorsCache, DefaultConfThreshold)
            order == CHOOSE p \in ArgsortDesc(scores) : TRUE
            keep == NmsNumpy(boxes, order, 30)
        IN  faceResult.detections =
                [k \in 1..Len(keep) |->
                    FaceDetectionOf(faceTensor, anchorsCache, indices[keep[k]])]

\* the chain with the scores falling along it: the middle face was
\* suppressed by the first and the last one was kept
C27_Witness ==
    /\ facePhase = "done"
    /\ faceTensor = FaceChain(2, 1, 0)
    /\ Len(faceResult.detections) = 2
    /\ faceResult.detections[1].confidence = 88080
    /\ faceResult.detections[2].confidence = 50000

----------------------------------------------------------------------------
(* The patches of a spectrogram of at least one patch, under SpecPatches *)

\* C28: a spectrogram of n >= PATCH_FRAMES frames is cut into
\* floor((n - 96) / 48) + 1 patches, patch i (from 0) holds the frames
\* 48 i .. 48 i + 95 in their order, and the frames after the last full
\* patch are in no patch.
C28_PatchesOfLongSpectrogram ==
    (patchPhase = "done" /\ melFrames >= PATCH_FRAMES) =>
        LET count == (melFrames - PATCH_FRAMES) \div PATCH_HOP + 1
        IN  /\ Len(patches) = count
            /\ \A i \in 0..(count - 1) :
                  /\ Len(patches[i + 1]) = PATCH_FRAMES
                  /\ \A r \in 0..(PATCH_FRAMES - 1) :
                        patches[i + 1][r + 1].frame = PATCH_HOP * i + r + 1
            /\ \A f \in (PATCH_HOP * (count - 1) + PATCH_FRAMES + 1)..melFrames :
                  \A k \in 1..Len(patches), r \in 1..PATCH_FRAMES :
                      patches[k][r].frame # f

\* a spectrogram of three patches that ends with frames of no patch
C28_Witness ==
    /\ patchPhase = "done"
    /\ melFrames >= PATCH_FRAMES
    /\ (melFrames - PATCH_FRAMES) % PATCH_HOP # 0
    /\ Len(patches) = 3

\* a spectrogram of exactly one patch
C28_OnePatchWitness ==
    /\ patchPhase = "done"
    /\ melFrames = PATCH_FRAMES
    /\ Len(patches) = 1

----------------------------------------------------------------------------
(* The order of the detections the decoders return, under SpecOrder *)

\* the detections _postprocess_raw or _postprocess_qnn builds before the
\* sort, for the tensor and the threshold of the last call
WdBuilt ==
    IF wdPhase = "raw"
    THEN LET rows == SelectSeq(wdRaw, LAMBDA c : WdMask(CellConfidence(c), wdConfUsed))
         IN  [i \in 1..Len(rows) |-> WdRawDetection(rows[i])]
    ELSE LET rows == SelectSeq(wdQnn, LAMBDA r : WdMask(r.score, wdConfUsed))
         IN  [i \in 1..Len(rows) |-> WdQnnDetection(rows[i])]

\* the number of positions of dets that hold d
Occurrences(dets, d) == Cardinality({i \in 1..Len(dets) : dets[i] = d})

\* C29: the detections of YOLOService.postprocess, of detect_faces and of
\* both Watchdog decoders are in non-increasing confidence order, and of
\* more than 20 detections above the threshold the Watchdog returns 20, none
\* of them with a lower confidence than a detection it leaves out.
C29_DetectionsByFallingConfidence ==
    /\ \A c \in yoloCalls :
          NonIncreasing(c.detections)
    /\ (facePhase = "done" /\ faceResult.status = "ok") =>
          NonIncreasing(faceResult.detections)
    /\ wdPhase \in {"raw", "qnn"} =>
          LET built == WdBuilt
          IN  /\ NonIncreasing(wdDetections)
              /\ Len(wdDetections) = Min2(Len(built), WatchdogMaxDetections)
              /\ \A d \in Range(wdDetections) :
                    Occurrences(wdDetections, d) <= Occurrences(built, d)
              /\ \A d \in Range(built) :
                    Occurrences(wdDetections, d) < Occurrences(built, d) =>
                        \A i \in 1..Len(wdDetections) :
                            wdDetections[i].confidence >= d.confidence

\* the three decoders have run: YOLO kept two cells that stand in rising
\* confidence in the tensor, the face detector returned two of three faces, and the
\* Watchdog cut more than 20 detections down to 20
C29_Witness ==
    /\ \E c \in yoloCalls :
          /\ Len(c.detections) = 2
          /\ CellConfidence(yoloOutputs[c.cand[1]]) < CellConfidence(yoloOutputs[c.cand[2]])
    /\ facePhase = "done" /\ faceResult.status = "ok"
    /\ faceTensor = FaceChain(0, 1, 2) /\ Len(faceResult.detections) = 2
    /\ wdPhase \in {"raw", "qnn"}
    /\ Len(WdBuilt) > WatchdogMaxDetections
    /\ Len(wdDetections) = WatchdogMaxDetections

----------------------------------------------------------------------------
(* The session cache of OnnxRuntimeManager, under SpecManager *)

\* the step is a call of op on the manager
MgrCall(op) == mgrCalls' = mgrCalls + 1 /\ mgrLast'.op = op

\* a construction when a manager exists returns it and keeps the cache
ConstructKeepsCache ==
    (MgrCall("construct") /\ mgrInstance # 0) =>
        (/\ mgrLast'.result = mgrInstance
         /\ mgrInstance' = mgrInstance
         /\ mgrSessions' = mgrSessions)

\* get_session of a cached model returns the cached session
CachedIsReturned ==
    (MgrCall("get_session") /\ mgrSessions[mgrLast'.name] # 0) =>
        (/\ mgrLast'.outcome = "cached"
         /\ mgrLast'.result = mgrSessions[mgrLast'.name]
         /\ mgrSessions' = mgrSessions)

\* a get_session that raises FileNotFoundError leaves the cache as it is
MissingFileKeepsCache ==
    (MgrCall("get_session") /\ mgrLast'.outcome = "FileNotFoundError") =>
        mgrSessions' = mgrSessions

\* a get_session that loads puts the new session under its name only
LoadedIsCached ==
    (MgrCall("get_session") /\ mgrLast'.outcome = "loaded") =>
        (/\ mgrLast'.result # 0
         /\ mgrSessions' = [mgrSessions EXCEPT ![mgrLast'.name] = mgrLast'.result])

ShutdownEmptiesCache == MgrCall("shutdown") => (mgrSessions' = NoSessions)

\* C30: constructing a manager when one exists returns the same object and
\* keeps every cached session; between two shutdowns get_session loads a
\* model at most once, and once it is cached returns that very session and
\* leaves the cache as it is; a get_session that raises FileNotFoundError
\* leaves the cache as it is; after shutdown the cache is empty.
C30_SingletonSessionCache ==
    /\ [](\A name \in ModelNames : mgrLoads[name] <= 1)
    /\ [][/\ ConstructKeepsCache
           /\ CachedIsReturned
           /\ MissingFileKeepsCache
           /\ LoadedIsCached
           /\ ShutdownEmptiesCache]_vars

\* a model was loaded, a manager was constructed again, and get_session
\* returned the cached session
C30_Witness ==
    /\ mgrLast.op = "get_session"
    /\ mgrLast.outcome = "cached"
    /\ mgrLast.result = mgrSessions[mgrLast.name]
    /\ mgrLoads[mgrLast.name] = 1
    /\ mgrCalls >= 4

============================================================================
